---- MODULE Spec2Model ----
(***************************************************************************)
(* State-machine model of the download scheduler of cli-torrent-client     *)
(* (src/src/torrent.rs with the peer session state of src/src/peer.rs).    *)
(*                                                                         *)
(* Tasks: the scheduler loop of Torrent::download ("main"), the assembler  *)
(* task it spawns ("asm"), one task per peer session (handle_peer inside   *)
(* the connection future) and the release task spawned by                  *)
(* DownloadingPiece::drop.  A task's pc names the await it is suspended    *)
(* at; one action is the code from that await to the next one.  A lock     *)
(* guard the source drops before the next await is acquired and released   *)
(* inside one action; `locks` records the guards alive across an await.    *)
(***************************************************************************)
EXTENDS Integers, Sequences, FiniteSets, TLC

\* ------------------------------------------------------------------ sizes

\* torrent.rs:18
BLOCK_SIZE == 16384

\* torrent.rs:422, the piece index at which get_next_piece exits the process
ExitPiece == 396

\* number of pieces of the torrent (metainfo.info().pieces().len())
NumPieces == 3

\* session slots: tasks spawned by the scheduler that exist at the same time
MaxSessions == 2

\* capacity of the assembler channel (mpsc::channel(1000) in the source)
ChanCap == 1

\* messages a peer may send outside the well-behaved script, over a run
MaxDeviations == 1

\* Byte counts (lengths, offsets, sizes) are kept in units of Granule bytes:
\* every count of the model is a multiple of it, and a u32 then wraps at
\* 2^32 / Granule units
Granule == BLOCK_SIZE \div 2

\* BLOCK_SIZE in units
Block == BLOCK_SIZE \div Granule

\* 2^32 bytes in units
U32 == ((2 ^ 30) \div Granule) * 4

\* metainfo.info().piece_length(): two blocks
PieceLength == 2 * Block

\* FileMode::SingleFile length: the last piece is shorter than a block
FileLength == (NumPieces - 1) * PieceLength + 1

Pieces == 0 .. (NumPieces - 1)

Addr == {"A", "B"}

Slots == 1 .. MaxSessions

NoPiece == -1

\* ------------------------------------------------------------- arithmetic

Min(a, b) == IF a < b THEN a ELSE b

Max(a, b) == IF a < b THEN b ELSE a

\* a - b on u32 in a build without overflow checks
WrapSub32(a, b) == (a - b) % U32

\* torrent.rs:448-451
get_last_piece_length(file_length, pieces, piece_length) ==
    (file_length - piece_length * (pieces - 1)) % U32

LastPieceLength == get_last_piece_length(FileLength, NumPieces, PieceLength)

\* the bytes piece i has in the file (torrent.rs:173-175): piece_length, but
\* last_piece_length for the last piece
PieceSize(i) == IF i = NumPieces - 1 THEN LastPieceLength ELSE PieceLength

\* torrent.rs:190-191, (len + BLOCK_SIZE - 1) / BLOCK_SIZE
BlockNum(len) == (len + Block - 1) \div Block

\* ---------------------------------------------------------------- BitVec

\* BitVec::from_elem(n, false)
BitVecNew(n) == [len |-> n, bits |-> {}]

\* BitVec::from_bytes: 8 bits per byte, MSB first
BitVecFromBytes(nbytes, setbits) == [len |-> 8 * nbytes, bits |-> setbits]

\* BitVec::get(i) is Some(_) inside the vector, None outside
BitIsSome(bv, i) == i >= 0 /\ i < bv.len

BitIsNone(bv, i) == ~BitIsSome(bv, i)

BitIsSet(bv, i) == BitIsSome(bv, i) /\ i \in bv.bits

\* BitVec::set(i, true); the caller handles i >= len (a panic)
BitSet(bv, i) == [bv EXCEPT !.bits = @ \cup {i}]

\* BitVec::all()
BitAll(bv) == bv.bits = 0 .. (bv.len - 1)

\* ----------------------------------------------------------------- tasks

MainTask == <<"main", 0>>

AsmTask == <<"asm", 0>>

SessTask(s) == <<"sess", s>>

RelTask(r) == <<"rel", r>>

NoTask == <<"none", 0>>

VARIABLES
    call,              \* a decoding or encoding routine run on its own: its
                       \* name (fn), its input (arg) and its result (ret)
    overflow_checks,   \* build profile, fixed by the first overflow that shows it
    swarm,             \* the world outside: the peer list the tracker returns
                       \* (peers) and the pieces each peer really holds (has)
    file_bitfield,     \* Torrent.file_bitfield
    available_pieces,  \* Torrent.available_pieces
    connected_peers,   \* Torrent.connected_peers
    locks,             \* the three RwLocks: writer and readers
    chan,              \* the assembler channel (WriteMessages in flight)
    chan_open,         \* FALSE once the receiver is dropped
    asm,               \* assembler task: pc and the piece being completed
    received_blocks,   \* assembler: arrival bits per piece
    pieces,            \* assembler: piece buffers
    file,              \* the output file, per piece region
    main,              \* scheduler loop: pc, tracker response, position in it
    sess,              \* session tasks, per slot
    rel,               \* release tasks spawned by DownloadingPiece::drop
    deviations         \* off-script peer events so far

vars == <<call, overflow_checks, swarm, file_bitfield, available_pieces, connected_peers,
          locks, chan, chan_open, asm, received_blocks, pieces, file, main, sess,
          rel, deviations>>

\* -------------------------------------------------------------- RwLock

FreeLock == [w |-> NoTask, r |-> {}]

\* RwLock::read() and RwLock::write() can return
CanRead(l) == locks[l].w = NoTask

CanWrite(l) == locks[l].w = NoTask /\ locks[l].r = {}

\* the lock table once task t holds a read or write guard on l
AcquireRead(l, t) == [locks EXCEPT ![l].r = @ \cup {t}]

AcquireWrite(l, t) == [locks EXCEPT ![l].w = t]

\* the lock table L once the guard of task t on lock l is dropped
Unlock(L, l, t) ==
    [L EXCEPT ![l] = [w |-> IF @.w = t THEN NoTask ELSE @.w, r |-> @.r \ {t}]]

\* the process is alive: Torrent::download has not returned or panicked
\* (client.rs:41-46, main.rs:10-16) and std::process::exit(0) has not been
\* called (torrent.rs:423)
Running == main.pc \notin {"finished", "panicked", "exited"}

\* -------------------------------------------------------------- messages

\* a peer message as decoded by Peer::read_message (peer.rs:61-73), or a
\* WriteMessage (peer.rs:36-40); len is the block length, ok tells whether the
\* block bytes are those of the torrent, len/bits describe a Bitfield payload
Msg(t, index, begin, len, ok, bits) ==
    [t |-> t, index |-> index, begin |-> begin, len |-> len, ok |-> ok, bits |-> bits]

NoMsg == Msg("none", 0, 0, 0, TRUE, {})

\* a tracker response (compact peer list) with both peers, one repeated
SwarmPeers == <<"A", "B", "B">>

\* the response of a tracker that knows one peer only
LonePeer == <<"A", "A">>

\* ------------------------------------------------------------------ Init

\* no routine is run on its own
NoCall == [fn |-> "none", arg |-> <<>>, ret |-> <<>>]

\* Peer::new (peer.rs:164-177) with DownloadingPiece::new (torrent.rs:65-67);
\* rq and script are the remote peer's side of the connection: the Request it
\* has not answered yet and how far it is in Bitfield, Unchoke, serve
NewSession(a) ==
    [pc |-> "start", addr |-> a, pieces |-> 0,
     is_choking |-> TRUE, is_interested |-> FALSE,
     am_choking |-> TRUE, am_interested |-> FALSE,
     bitfield |-> BitVecNew(0), piece |-> NoPiece, offset |-> 0,
     cont |-> "none", out |-> NoMsg, rq |-> NoMsg, script |-> 0]

NoSession == [NewSession("A") EXCEPT !.pc = "unborn"]

\* peers A and B hold {0,1} and {1,2}
ScenarioHas == [a \in Addr |-> IF a = "A" THEN {0, 1} ELSE {1, 2}]

Scenario == [peers |-> SwarmPeers, has |-> ScenarioHas]

\* peer A holds every piece, peer B holds piece 0
SeederHas == [a \in Addr |-> IF a = "A" THEN Pieces ELSE {0}]

Seeder == [peers |-> SwarmPeers, has |-> SeederHas]

\* peer A alone, holding every piece
Lone == [peers |-> LonePeer, has |-> SeederHas]

\* Torrent::new (torrent.rs:126-140) and the locals of Torrent::download up to
\* the main loop (torrent.rs:168-196)
Constructed(swarms) ==
    /\ overflow_checks = "unknown"
    /\ swarm \in swarms
    /\ file_bitfield = BitVecNew(NumPieces)
    /\ available_pieces = Pieces
    /\ connected_peers = {}
    /\ locks = [l \in {"fb", "ap", "cp"} |-> FreeLock]
    /\ chan = <<>>
    /\ chan_open = TRUE
    /\ asm = [pc |-> "recv", index |-> 0]
    /\ received_blocks = [i \in Pieces |->
                            IF i < NumPieces - 1 THEN BitVecNew(BlockNum(PieceLength))
                            ELSE BitVecNew(BlockNum(LastPieceLength))]
    /\ pieces = [i \in Pieces |-> <<>>]
    /\ file = [i \in Pieces |-> <<>>]
    /\ main = [pc |-> "check", peers |-> <<>>, idx |-> 0]
    /\ sess = [s \in Slots |-> NoSession]
    /\ rel = {}
    /\ deviations = 0

\* the download, with no routine run on its own
InitWith(swarms) == call = NoCall /\ Constructed(swarms)

Init == InitWith({Scenario, Seeder})

\* ------------------------------------------------- scheduler (main loop)

\* torrent.rs:225-228: file_bitfield.read().await.all() and the break; the
\* guard is a temporary of the if condition
MainCheck ==
    /\ Running
    /\ main.pc = "check"
    /\ CanRead("fb")
    /\ locks' = Unlock(AcquireRead("fb", MainTask), "fb", MainTask)
    /\ main' = [main EXCEPT !.pc = IF BitAll(file_bitfield) THEN "finished"
                                   ELSE "announce"]
    /\ UNCHANGED <<call, overflow_checks, swarm, file_bitfield, available_pieces,
                   connected_peers, chan, chan_open, asm, received_blocks, pieces,
                   file, sess, rel, deviations>>

\* torrent.rs:231-238, tracker.announce() returns Ok with a compact peer list
MainAnnounce ==
    /\ Running
    /\ main.pc = "announce"
    /\ main' = [pc |-> "iter", peers |-> swarm.peers, idx |-> 1]
    /\ UNCHANGED <<call, overflow_checks, swarm, file_bitfield, available_pieces,
                   connected_peers, locks, chan, chan_open, asm, received_blocks,
                   pieces, file, sess, rel, deviations>>

\* torrent.rs:231-233, Err(_) => continue; tracker.rs:376-379 and
\* torrent.rs:275-277, todo!() on an undecodable or non-compact response
MainAnnounceFails ==
    /\ Running
    /\ main.pc = "announce"
    /\ \E outcome \in {"err", "todo"} :
          main' = [main EXCEPT !.pc = IF outcome = "err" THEN "check" ELSE "panicked"]
    /\ UNCHANGED <<call, overflow_checks, swarm, file_bitfield, available_pieces,
                   connected_peers, locks, chan, chan_open, asm, received_blocks,
                   pieces, file, sess, rel, deviations>>

\* the end of one iteration of `for &addr in peers.iter()` (torrent.rs:238)
MainAdvance(m) ==
    IF m.idx < Len(m.peers)
    THEN [m EXCEPT !.pc = "iter", !.idx = @ + 1]
    ELSE [pc |-> "check", peers |-> <<>>, idx |-> 0]

\* a read guard bound to a local that lives to the end of the loop body
MainGuardKept(L) == L

\* torrent.rs:239: the read guard is a temporary of the if condition, dropped
\* before the body and before the next lock is asked for
MainGuardAfterAll(L) == Unlock(L, "fb", MainTask)

\* torrent.rs:239-242: file_bitfield.read().await.all() and break 'main
MainIter ==
    /\ Running
    /\ main.pc = "iter"
    /\ CanRead("fb")
    /\ locks' = MainGuardAfterAll(AcquireRead("fb", MainTask))
    /\ main' = IF BitAll(file_bitfield)
               THEN [pc |-> "finished", peers |-> <<>>, idx |-> 0]
               ELSE [main EXCEPT !.pc = "contains"]
    /\ UNCHANGED <<call, overflow_checks, swarm, file_bitfield, available_pieces,
                   connected_peers, chan, chan_open, asm, received_blocks, pieces,
                   file, sess, rel, deviations>>

\* a scheduler that does not look at connected_peers
NeverConnected(addr) == FALSE

\* torrent.rs:245, .contains(&addr)
IsConnected(addr) == addr \in connected_peers

\* torrent.rs:245-247: connected_peers.read().await.contains(&addr), skip if
\* the peer is already connected
MainContains ==
    /\ Running
    /\ main.pc = "contains"
    /\ CanRead("cp")
    /\ locks' = Unlock(AcquireRead("cp", MainTask), "cp", MainTask)
    /\ main' = IF IsConnected(main.peers[main.idx])
               THEN MainAdvance(main)
               ELSE [main EXCEPT !.pc = "insert"]
    /\ UNCHANGED <<call, overflow_checks, swarm, file_bitfield, available_pieces,
                   connected_peers, chan, chan_open, asm, received_blocks, pieces,
                   file, sess, rel, deviations>>

\* a slot without a session task
FreeSlots == {s \in Slots : sess[s].pc = "unborn"}

\* torrent.rs:271-272: connected_peers.write().await.insert(addr) and
\* tokio::spawn(connection)
MainInsertSpawn ==
    /\ Running
    /\ main.pc = "insert"
    /\ CanWrite("cp")
    /\ FreeSlots # {}
    /\ LET addr == main.peers[main.idx]
           s == CHOOSE x \in FreeSlots : \A y \in FreeSlots : x <= y
       IN /\ connected_peers' = connected_peers \cup {addr}
          /\ sess' = [sess EXCEPT ![s] = NewSession(addr)]
    /\ locks' = Unlock(AcquireWrite("cp", MainTask), "cp", MainTask)
    /\ main' = MainAdvance(main)
    /\ UNCHANGED <<call, overflow_checks, swarm, file_bitfield, available_pieces, chan,
                   chan_open, asm, received_blocks, pieces, file, rel, deviations>>

MainStep ==
    \/ MainCheck
    \/ MainAnnounce
    \/ MainIter
    \/ MainContains
    \/ MainInsertSpawn

\* ------------------------------------------------------------ assembler

\* the contents of piece i in the torrent, one mark per unit
TruePiece(i) == [k \in 1 .. PieceSize(i) |-> "good"]

\* torrent.rs:202-206: resize(begin + len, 0) if the buffer is shorter, then
\* copy_from_slice of the block at begin
CopyBlock(buf, begin, len, ok) ==
    [k \in 1 .. Max(Len(buf), begin + len) |->
        IF k > begin /\ k <= begin + len THEN (IF ok THEN "good" ELSE "bad")
        ELSE IF k <= Len(buf) THEN buf[k]
        ELSE "zero"]

\* torrent.rs:198-211: one message taken off the channel, up to the next await.
\* pieces.get_mut(index).unwrap() and BitVec::set panic outside their ranges;
\* the receiver is dropped with the task
AsmRecv ==
    /\ Running
    /\ asm.pc = "recv"
    /\ chan # <<>>
    /\ LET m == Head(chan)
           block_index == m.begin \div Block
       IN IF m.index \notin Pieces
             \/ ~BitIsSome(received_blocks[m.index], block_index)
          THEN /\ asm' = [pc |-> "panicked", index |-> 0]
               /\ chan' = <<>>
               /\ chan_open' = FALSE
               /\ pieces' = IF m.index \in Pieces
                            THEN [pieces EXCEPT ![m.index] =
                                     CopyBlock(@, m.begin, m.len, m.ok)]
                            ELSE pieces
               /\ UNCHANGED received_blocks
          ELSE /\ pieces' = [pieces EXCEPT ![m.index] =
                                CopyBlock(@, m.begin, m.len, m.ok)]
               /\ received_blocks' = [received_blocks EXCEPT ![m.index] =
                                         BitSet(@, block_index)]
               /\ asm' = IF BitAll(received_blocks'[m.index])
                         THEN [pc |-> "set_bit", index |-> m.index]
                         ELSE [pc |-> "recv", index |-> 0]
               /\ chan' = Tail(chan)
               /\ UNCHANGED chan_open
    /\ UNCHANGED <<call, overflow_checks, swarm, file_bitfield, available_pieces,
                   connected_peers, locks, file, main, sess, rel, deviations>>

\* a write guard bound to a local that lives to the end of the loop body
AsmGuardKept(L) == L

\* torrent.rs:213: the write guard is a temporary of the statement, dropped
\* at its end
AsmGuardAfterSet(L) == Unlock(L, "fb", AsmTask)

\* torrent.rs:213, bitfield.write().await.set(index, true)
AsmSetBit ==
    /\ Running
    /\ asm.pc = "set_bit"
    /\ CanWrite("fb")
    /\ file_bitfield' = BitSet(file_bitfield, asm.index)
    /\ locks' = AsmGuardAfterSet(AcquireWrite("fb", AsmTask))
    /\ asm' = [asm EXCEPT !.pc = "write"]
    /\ UNCHANGED <<call, overflow_checks, swarm, available_pieces, connected_peers, chan,
                   chan_open, received_blocks, pieces, file, main, sess, rel,
                   deviations>>

\* torrent.rs:216-219: file.seek(Start(index * piece_length)) and
\* file.write_all(&pieces[index])
AsmWrite ==
    /\ Running
    /\ asm.pc = "write"
    /\ file' = [file EXCEPT ![asm.index] = pieces[asm.index]]
    /\ asm' = [pc |-> "recv", index |-> 0]
    /\ UNCHANGED <<call, overflow_checks, swarm, file_bitfield, available_pieces,
                   connected_peers, locks, chan, chan_open, received_blocks, pieces,
                   main, sess, rel, deviations>>

AsmStep ==
    \/ AsmRecv
    \/ AsmSetBit
    \/ AsmWrite

\* ---------------------------------------------- DownloadingPiece::drop

\* torrent.rs:79, file_bitfield.read().await.get(piece as usize).is_none()
ReleaseWanted(piece) == BitIsNone(file_bitfield, piece)

\* torrent.rs:78-82, a spawned release task r = <<piece, pc>>: the test under
\* the read guard of file_bitfield (dropped with the if condition), then the
\* insert under the write guard of available_pieces
RelRun(r) ==
    /\ Running
    /\ IF r[2] = "check"
       THEN /\ CanRead("fb")
            /\ locks' = Unlock(AcquireRead("fb", RelTask(r)), "fb", RelTask(r))
            /\ rel' = (rel \ {r}) \cup (IF ReleaseWanted(r[1])
                                        THEN {<<r[1], "insert">>} ELSE {})
            /\ UNCHANGED available_pieces
       ELSE /\ CanWrite("ap")
            /\ locks' = Unlock(AcquireWrite("ap", RelTask(r)), "ap", RelTask(r))
            /\ available_pieces' = available_pieces \cup {r[1]}
            /\ rel' = rel \ {r}
    /\ UNCHANGED <<call, overflow_checks, swarm, file_bitfield, connected_peers, chan,
                   chan_open, asm, received_blocks, pieces, file, main, sess,
                   deviations>>

RelStep == \E r \in rel : RelRun(r)

\* --------------------------------------------------------- peer session

\* torrent.rs:416-434: the first index, in bitfield order, whose bit is set and
\* that is in available_pieces; NoPiece for None
get_next_piece(bitfield, available) ==
    LET found == {i \in bitfield.bits : i < bitfield.len /\ i \in available}
    IN IF found = {} THEN NoPiece
       ELSE CHOOSE i \in found : \A j \in found : i <= j

\* a get_next_piece that leaves the piece in the set
AvailableKept(available, piece) == available

\* torrent.rs:427, available_pieces.remove(&piece)
AvailableAfterTake(available, piece) == available \ {piece}

\* torrent.rs:436-446: some available piece for which bitfield().get(piece)
\* is Some(_), that is, lies inside the bitfield
is_there_next_piece(bitfield, available) ==
    \E piece \in available : BitIsSome(bitfield, piece)

\* torrent.rs:341-345 and 379-383: `pieces - 1` on usize or the u32
\* subtraction overflows
Overflows(st, index, offset) ==
    \/ st.pieces = 0
    \/ (IF index = st.pieces - 1 THEN LastPieceLength ELSE PieceLength) < offset

\* torrent.rs:341-345 and 379-383: remaining_piece_size, wrapping
Remaining(st, index, offset) ==
    IF st.pieces > 0 /\ index = st.pieces - 1
    THEN WrapSub32(LastPieceLength, offset)
    ELSE WrapSub32(PieceLength, offset)

\* torrent.rs:348-352 and 401-407: the Request for the rest of the piece
NextRequest(piece, offset, remaining) ==
    Msg("Request", piece, offset,
        IF remaining < Block THEN remaining ELSE Block, TRUE, {})

\* the result of a synchronous stretch of handle_peer: the session's new
\* state, how handle_peer left, if it did ("no", "ok", "err", "panic"), and
\* whether an overflow was computed
Step(st, exit, ov) == [st |-> st, exit |-> exit, ov |-> ov]

\* torrent.rs:313-411: the match arm of message m, up to its first await;
\* oc tells whether the build checks overflows
Handle(st, m, oc) ==
    CASE m.t = "KeepAlive" ->
            Step([st EXCEPT !.pc = "itnp", !.cont = "keepalive"], "no", FALSE)
      [] m.t = "Choke" ->
            Step([st EXCEPT !.is_choking = TRUE], "no", FALSE)
      [] m.t = "Unchoke" ->
            IF ~st.is_choking THEN Step(st, "no", FALSE)
            ELSE IF st.piece = NoPiece
            THEN Step([st EXCEPT !.is_choking = FALSE, !.pc = "gnp",
                                 !.cont = "unchoke"], "no", FALSE)
            ELSE IF oc /\ Overflows(st, st.piece, st.offset)
            THEN Step([st EXCEPT !.is_choking = FALSE], "panic", TRUE)
            ELSE Step([st EXCEPT !.is_choking = FALSE, !.pc = "send_request",
                                 !.out = NextRequest(st.piece, st.offset,
                                            Remaining(st, st.piece, st.offset))],
                      "no", Overflows(st, st.piece, st.offset))
      [] m.t = "Have" ->
            IF ~BitIsSome(st.bitfield, m.index) THEN Step(st, "panic", FALSE)
            ELSE Step([st EXCEPT !.bitfield = BitSet(@, m.index),
                                 !.pc = IF st.am_interested THEN "read" ELSE "itnp",
                                 !.cont = IF st.am_interested THEN "none"
                                          ELSE "interest"], "no", FALSE)
      [] m.t = "Bitfield" ->
            Step([st EXCEPT !.bitfield = BitVecFromBytes(m.len, m.bits),
                            !.pc = IF st.am_interested THEN "read" ELSE "itnp",
                            !.cont = IF st.am_interested THEN "none"
                                     ELSE "interest"], "no", FALSE)
      [] m.t = "Piece" ->
            Step([st EXCEPT !.pc = "chan_send",
                            !.out = Msg("Write", m.index, m.begin, m.len, m.ok, {})],
                 "no", FALSE)
      [] OTHER -> Step(st, "no", FALSE)

\* torrent.rs:377-407: the Piece arm after sender.send(..).await
AfterSend(st, oc) ==
    LET index == st.out.index
        offset == st.offset + st.out.len
        moved == [st EXCEPT !.offset = offset, !.out = NoMsg]
        ov == Overflows(st, index, offset)
    IN IF oc /\ ov THEN Step(moved, "panic", TRUE)
       ELSE IF Remaining(st, index, offset) = 0
       THEN Step([moved EXCEPT !.offset = 0, !.pc = "gnp", !.cont = "piece"],
                 "no", ov)
       ELSE IF st.piece = NoPiece THEN Step(moved, "panic", ov)
       ELSE Step([moved EXCEPT !.pc = "send_request",
                               !.out = NextRequest(st.piece, offset,
                                          Remaining(st, index, offset))], "no", ov)

\* the session record once handle_peer has left: the connection future goes
\* on to connected_peers.write() (torrent.rs:268); a panicked task is gone
Left(st, exit) ==
    IF exit = "panic" THEN NoSession
    ELSE [NoSession EXCEPT !.addr = st.addr, !.pc = "remove"]

\* DownloadingPiece::drop (torrent.rs:70-86) as handle_peer's locals are
\* dropped: a release task is spawned if a piece is held
Dropped(st) ==
    IF st.piece # NoPiece THEN rel \cup {<<st.piece, "check">>} ELSE rel

\* the builds the run so far is consistent with
Builds == IF overflow_checks = "unknown" THEN BOOLEAN
          ELSE {overflow_checks = "checked"}

\* sess, rel and overflow_checks after a synchronous stretch r of session s
\* in a build with (oc) or without overflow checks
Continue(s, r, oc) ==
    /\ sess' = [sess EXCEPT ![s] = IF r.exit = "no" THEN r.st
                                   ELSE Left(r.st, r.exit)]
    /\ rel' = IF r.exit = "no" THEN rel ELSE Dropped(r.st)
    /\ overflow_checks' = IF r.ov THEN (IF oc THEN "checked" ELSE "wrapping")
                          ELSE overflow_checks

\* torrent.rs:295, let pieces = available_pieces.read().await.len()
SessStart(s) ==
    /\ Running
    /\ sess[s].pc = "start"
    /\ CanRead("ap")
    /\ locks' = Unlock(AcquireRead("ap", SessTask(s)), "ap", SessTask(s))
    /\ sess' = [sess EXCEPT ![s].pieces = Cardinality(available_pieces),
                            ![s].pc = "connect"]
    /\ UNCHANGED <<call, overflow_checks, swarm, file_bitfield, available_pieces,
                   connected_peers, chan, chan_open, asm, received_blocks, pieces,
                   file, main, rel, deviations>>

\* torrent.rs:297-306: TcpStream::connect, Peer::new(stream, pieces) with its
\* BitVec::from_elem(num_pieces, false) (peer.rs:175), and the handshake
SessConnect(s) ==
    /\ Running
    /\ sess[s].pc = "connect"
    /\ sess' = [sess EXCEPT ![s].pc = "read",
                            ![s].bitfield = BitVecNew(sess[s].pieces)]
    /\ UNCHANGED <<call, overflow_checks, swarm, file_bitfield, available_pieces,
                   connected_peers, locks, chan, chan_open, asm, received_blocks,
                   pieces, file, main, rel, deviations>>

\* torrent.rs:332-339 and 390-397: get_next_piece under its write guard, and
\* the caller up to send_request or return Ok(()); torrent.rs:422-424 exits
\* the process on piece ExitPiece
SessGetNextPiece(s) ==
    /\ Running
    /\ sess[s].pc = "gnp"
    /\ CanWrite("ap")
    /\ LET st == sess[s]
           next_piece == get_next_piece(st.bitfield, available_pieces)
       IN /\ available_pieces' = IF next_piece = NoPiece \/ next_piece = ExitPiece
                                 THEN available_pieces
                                 ELSE AvailableAfterTake(available_pieces, next_piece)
          /\ main' = IF next_piece = ExitPiece THEN [main EXCEPT !.pc = "exited"]
                     ELSE main
          /\ Continue(s,
                IF next_piece = NoPiece THEN Step(st, "ok", FALSE)
                ELSE Step([st EXCEPT !.piece = next_piece, !.pc = "send_request",
                                     !.cont = "none",
                                     !.out = Msg("Request", next_piece,
                                                 IF st.cont = "unchoke" THEN st.offset
                                                 ELSE 0,
                                                 Block, TRUE, {})], "no", FALSE),
                FALSE)
    /\ locks' = Unlock(AcquireWrite("ap", SessTask(s)), "ap", SessTask(s))
    /\ UNCHANGED <<call, swarm, file_bitfield, connected_peers, chan, chan_open, asm,
                   received_blocks, pieces, file, deviations>>

\* torrent.rs:316-318 (KeepAlive) and 362-364, 369-371 (Have, Bitfield):
\* is_there_next_piece under its read guard and what the caller does with it
SessIsThereNextPiece(s) ==
    /\ Running
    /\ sess[s].pc = "itnp"
    /\ CanRead("ap")
    /\ LET st == sess[s]
           there == is_there_next_piece(st.bitfield, available_pieces)
       IN Continue(s,
             IF st.cont = "keepalive"
             THEN (IF there THEN Step(st, "ok", FALSE)
                   ELSE Step([st EXCEPT !.pc = "read", !.cont = "none"], "no", FALSE))
             ELSE Step([st EXCEPT !.pc = IF there THEN "send_interested" ELSE "read",
                                  !.cont = "none"], "no", FALSE),
             FALSE)
    /\ locks' = Unlock(AcquireRead("ap", SessTask(s)), "ap", SessTask(s))
    /\ UNCHANGED <<call, swarm, file_bitfield, available_pieces, connected_peers, chan,
                   chan_open, asm, received_blocks, pieces, file, main, deviations>>

\* peer.rs:286-291 send_interested and peer.rs:293-303 send_request: the write
\* to the peer succeeds; the peer now has the Request to answer
SessWrite(s) ==
    /\ Running
    /\ sess[s].pc \in {"send_interested", "send_request"}
    /\ LET st == sess[s]
       IN sess' = [sess EXCEPT ![s] =
                     IF st.pc = "send_interested"
                     THEN [st EXCEPT !.pc = "read", !.am_interested = TRUE]
                     ELSE [st EXCEPT !.pc = "read", !.rq = st.out, !.out = NoMsg]]
    /\ UNCHANGED <<call, overflow_checks, swarm, file_bitfield, available_pieces,
                   connected_peers, locks, chan, chan_open, asm, received_blocks,
                   pieces, file, main, rel, deviations>>

\* torrent.rs:375-408: sender.send(WriteMessage).await.unwrap() and the rest
\* of the Piece arm; send waits while the channel is full and fails (the
\* unwrap panics) once the receiver is gone
SessChanSend(s) ==
    /\ Running
    /\ sess[s].pc = "chan_send"
    /\ IF chan_open
       THEN /\ Len(chan) < ChanCap
            /\ chan' = Append(chan, sess[s].out)
            /\ \E oc \in Builds : Continue(s, AfterSend(sess[s], oc), oc)
       ELSE /\ chan' = chan
            /\ Continue(s, Step(sess[s], "panic", FALSE), FALSE)
    /\ UNCHANGED <<call, swarm, file_bitfield, available_pieces, connected_peers, locks,
                   chan_open, asm, received_blocks, pieces, file, main, deviations>>

\* torrent.rs:268, connected_peers.write().await.remove(&addr)
SessRemove(s) ==
    /\ Running
    /\ sess[s].pc = "remove"
    /\ CanWrite("cp")
    /\ connected_peers' = connected_peers \ {sess[s].addr}
    /\ locks' = Unlock(AcquireWrite("cp", SessTask(s)), "cp", SessTask(s))
    /\ sess' = [sess EXCEPT ![s] = NoSession]
    /\ UNCHANGED <<call, overflow_checks, swarm, file_bitfield, available_pieces, chan,
                   chan_open, asm, received_blocks, pieces, file, main, rel,
                   deviations>>

\* ------------------------------------------------------ the remote peer

\* a Request the peer can serve: a piece it holds, inside the piece
Servable(a, rq) ==
    /\ rq.t = "Request"
    /\ rq.index \in swarm.has[a]
    /\ rq.begin < PieceSize(rq.index)
    /\ rq.len > 0

\* the next message of a well-behaved peer on a session: its Bitfield, Unchoke
\* once the client is interested, then the block of each Request
Scripted(st) ==
    IF st.script = 0
    THEN {Msg("Bitfield", 0, 0, (NumPieces + 7) \div 8, TRUE, swarm.has[st.addr])}
    ELSE IF st.script = 1
    THEN (IF st.am_interested THEN {Msg("Unchoke", 0, 0, 0, TRUE, {})} ELSE {})
    ELSE IF Servable(st.addr, st.rq)
    THEN {Msg("Piece", st.rq.index, st.rq.begin,
              Min(st.rq.len, PieceSize(st.rq.index) - st.rq.begin), TRUE, {})}
    ELSE {}

\* torrent.rs:310-313: read_message returns the peer's next scripted message
PeerSends(s) ==
    /\ Running
    /\ sess[s].pc = "read"
    /\ \E m \in Scripted(sess[s]), oc \in Builds :
          Continue(s, Handle([sess[s] EXCEPT !.script = Min(@ + 1, 2),
                                             !.rq = IF sess[s].script = 2 THEN NoMsg
                                                    ELSE @], m, oc), oc)
    /\ UNCHANGED <<call, swarm, file_bitfield, available_pieces, connected_peers, locks,
                   chan, chan_open, asm, received_blocks, pieces, file, main,
                   deviations>>

\* blocks a peer can send whatever was requested: (begin, length, ok)
UnscriptedBlocks ==
    {<<0, Block, TRUE>>, <<0, Block, FALSE>>, <<Block, Block, TRUE>>, <<0, 1, TRUE>>}

\* messages a peer can send at any time, whatever was requested; a piece
\* index of NumPieces is outside the torrent
Unscripted ==
    {Msg(k, 0, 0, 0, TRUE, {}) : k \in {"KeepAlive", "Choke", "Unchoke"}}
    \cup {Msg("Have", i, 0, 0, TRUE, {}) : i \in 0 .. NumPieces}
    \cup {Msg("Bitfield", 0, 0, (NumPieces + 7) \div 8, TRUE, Pieces)}
    \cup {Msg("Piece", i, b[1], b[2], b[3], {}) :
             i \in 0 .. NumPieces, b \in UnscriptedBlocks}

\* torrent.rs:310-313: read_message returns a message outside the script, one
\* that the session does not simply ignore
PeerDeviates(s) ==
    /\ Running
    /\ sess[s].pc = "read"
    /\ deviations < MaxDeviations
    /\ deviations' = deviations + 1
    /\ \E m \in Unscripted, oc \in Builds :
          /\ Handle(sess[s], m, oc) # Step(sess[s], "no", FALSE)
          /\ Continue(s, Handle(sess[s], m, oc), oc)
    /\ UNCHANGED <<call, swarm, file_bitfield, available_pieces, connected_peers, locks,
                   chan, chan_open, asm, received_blocks, pieces, file, main>>

\* torrent.rs:297-300, 306, 310, 335, 363: connect, handshake, read_message or a
\* send returns an error and handle_peer returns it (the `?`)
SessIoError(s) ==
    /\ Running
    /\ sess[s].pc \in {"connect", "read", "send_interested", "send_request"}
    /\ deviations < MaxDeviations
    /\ deviations' = deviations + 1
    /\ Continue(s, Step(sess[s], "err", FALSE), FALSE)
    /\ UNCHANGED <<call, swarm, file_bitfield, available_pieces, connected_peers, locks,
                   chan, chan_open, asm, received_blocks, pieces, file, main>>

\* peer.rs:247 and 94-101: a frame with length 1 and an id above 3 reaches
\* Message::from_id, which panics
SessFramePanic(s) ==
    /\ Running
    /\ sess[s].pc = "read"
    /\ deviations < MaxDeviations
    /\ deviations' = deviations + 1
    /\ Continue(s, Step(sess[s], "panic", FALSE), FALSE)
    /\ UNCHANGED <<call, swarm, file_bitfield, available_pieces, connected_peers, locks,
                   chan, chan_open, asm, received_blocks, pieces, file, main>>

\* the steps of the session in slot s with a well-behaved peer
SessStep1(s) ==
    \/ SessStart(s)
    \/ SessConnect(s)
    \/ SessGetNextPiece(s)
    \/ SessIsThereNextPiece(s)
    \/ SessWrite(s)
    \/ SessChanSend(s)
    \/ SessRemove(s)
    \/ PeerSends(s)

SessStep == \E s \in Slots : SessStep1(s)

\* ------------------------------------------------------- specifications

\* well-behaved peers and a working tracker
NextHonest == MainStep \/ AsmStep \/ RelStep \/ SessStep

\* connections and announces may fail
NextFaulty ==
    \/ NextHonest
    \/ MainAnnounceFails
    \/ \E s \in Slots : SessIoError(s) \/ SessFramePanic(s)

\* peers may send any message at any time
NextDeviant ==
    \/ NextHonest
    \/ \E s \in Slots : PeerDeviates(s)

\* a peer other than the seeder loses its connection
UnreliableB == \E s \in Slots : sess[s].addr = "B" /\ SessIoError(s)

NextUnreliable == NextHonest \/ UnreliableB

\* the scheduling of the runtime: a task that can run is run, and the
\* tracker and the well-behaved peers keep answering
Fairness ==
    /\ WF_vars(MainStep)
    /\ WF_vars(AsmStep)
    /\ WF_vars(RelStep)
    /\ \A s \in Slots : WF_vars(SessStep1(s))

\* peers A {0,1} and B {1,2}; connections and announces may fail
Spec == Init /\ [][NextFaulty]_vars

\* peers A {0,1} and B {1,2}, well-behaved, under fair scheduling
ScenarioSpec == InitWith({Scenario}) /\ [][NextHonest]_vars /\ Fairness

\* peer A alone, sending any message at any time
DeviantSpec == InitWith({Lone}) /\ [][NextDeviant]_vars

\* a seeder A that keeps answering and a peer B whose connection may fail,
\* under fair scheduling
FairSpec == InitWith({Seeder}) /\ [][NextUnreliable]_vars /\ Fairness

\* ------------------------------------------------------------ properties

\* handle_peer of slot s is running
Live(s) == sess[s].pc \notin {"unborn", "remove"}

\* the sessions whose DownloadingPiece.piece is Some(i)
Holders(i) == {s \in Slots : Live(s) /\ sess[s].piece = i}

\* the pieces whose FileBitfield bit is set
Completed == {i \in Pieces : BitIsSet(file_bitfield, i)}

\* a block of piece i is on its way to the assembler, or the assembler is
\* about to mark piece i
InPipeline(i) ==
    \/ \E k \in 1 .. Len(chan) : chan[k].index = i
    \/ asm.pc = "set_bit" /\ asm.index = i

\* C1: at every instant and for every piece index, at most one peer session
\* holds it as its current assignment, whatever the interleaving of session
\* starts, piece completions and session terminations
C1_AtMostOneHolder == \A i \in Pieces : Cardinality(Holders(i)) <= 1

\* two sessions hold pieces at the same time, after a piece has been completed
C1_Witness ==
    /\ \E s1, s2 \in Slots :
          /\ s1 # s2
          /\ Live(s1) /\ sess[s1].piece # NoPiece
          /\ Live(s2) /\ sess[s2].piece # NoPiece
    /\ Completed # {}

\* C2: once a session has terminated, by any exit path, while holding a piece
\* that is not complete, and its release task has run, the piece is again in
\* available_pieces, where get_next_piece selects from
C2_ReleasedOnTermination ==
    \A i \in Pieces :
        (/\ Holders(i) = {}
         /\ \A r \in rel : r[1] # i
         /\ i \notin Completed
         /\ ~BitAll(received_blocks[i])
         /\ ~InPipeline(i))
        => i \in available_pieces

\* C3: the FileBitfield bit of a piece is set only if the piece's buffer has
\* been written to the file
C3_BitOnlyAfterWrite == \A i \in Completed : file[i] # <<>>

\* C4: a piece whose buffer does not have the torrent's contents (its SHA-1
\* differs from info.pieces[i]) is not written to the file and its
\* FileBitfield bit stays clear
C4_MismatchRejected ==
    \A i \in Pieces :
        (i \in Completed \/ file[i] # <<>>) => pieces[i] = TruePiece(i)

\* C5: when Torrent::download returns, the file holds the contents of every
\* piece
C5_FileCompleteOnReturn ==
    main.pc = "finished" => \A i \in Pieces : file[i] = TruePiece(i)

\* C6: with a peer that offers every piece and keeps answering, download
\* eventually returns, even when sessions of other peers terminate with an
\* error while holding an assignment
C6_EventuallyReturns == <>(main.pc = "finished")

\* the piece indices assigned to a session that is not on its way into
\* get_next_piece to replace its assignment
InFlightSettled ==
    {i \in Pieces : \E s \in Holders(i) : sess[s].pc # "gnp"}

\* C7: the in-flight piece indices are disjoint from the pieces whose
\* FileBitfield bit is set (a session between the last block of its piece and
\* get_next_piece is not counted as holding the piece)
C7_InFlightNotCompleted == InFlightSettled \cap Completed = {}

\* C8: with peers A {0,1} and B {1,2} and a file of pieces {0,1,2}, all three
\* pieces complete: FileBitfield becomes all-set
C8_ScenarioCompletes == <>BitAll(file_bitfield)

\* C9: the scheduler never has two session tasks for the same peer address
C9_OneSessionPerAddress ==
    \A s1, s2 \in Slots :
        (s1 # s2 /\ sess[s1].pc # "unborn" /\ sess[s2].pc # "unborn")
        => sess[s1].addr # sess[s2].addr

\* the scheduler is at the repeated address of a response, about to look it
\* up in connected_peers, while that address has a running session
C9_Witness ==
    /\ main.pc = "contains"
    /\ main.idx = Len(main.peers)
    /\ IsConnected(main.peers[main.idx])
    /\ \E s \in Slots : Live(s) /\ sess[s].addr = main.peers[main.idx]

\* C10: no task is suspended (at network I/O, file I/O, a channel send or
\* anywhere else) holding a guard of file_bitfield or available_pieces
C10_NoLockAcrossAwait == \A l \in {"fb", "ap"} : locks[l] = FreeLock

\* the assembler is at its file write, having marked the piece under the
\* write guard, while a session that has claimed a piece under the guard of
\* available_pieces is at its network send
C10_Witness ==
    /\ asm.pc = "write"
    /\ asm.index \in Completed
    /\ \E s \in Slots : sess[s].pc = "send_request" /\ sess[s].piece # NoPiece

\* ------------------------------------------- peer wire format (peer.rs)

\* u32::from_be_bytes of the four bytes of b starting at position p
BE32(b, p) == ((b[p] * 256 + b[p + 1]) * 256 + b[p + 2]) * 256 + b[p + 3]

\* the bytes of s after its first n
Drop(s, n) == SubSeq(s, n + 1, Len(s))

\* the first n bytes of s
Take(s, n) == SubSeq(s, 1, n)

\* the outcome of a routine: a value, an error value, or a panic
Ok(v) == [kind |-> "ok", val |-> v]

Err(e) == [kind |-> "err", val |-> e]

Panic == [kind |-> "panic", val |-> <<>>]

\* a read that keeps the whole frame length as the payload length
PayloadLenWhole(len) == len

\* peer.rs:237, let payload_len = len as usize - 1
PayloadLen(len) == len - 1

\* peer.rs:94-102, Message::from_id
from_id(id) ==
    CASE id = 0 -> Ok(<<"Choke">>)
      [] id = 1 -> Ok(<<"Unchoke">>)
      [] id = 2 -> Ok(<<"Interested">>)
      [] id = 3 -> Ok(<<"NotInterested">>)
      [] OTHER -> Panic

\* peer.rs:104-150, Message::from_id_and_payload
from_id_and_payload(id, payload) ==
    LET len == Len(payload)
    IN CASE id = 4 ->
               IF len # 4 THEN Err(<<"InvalidPayloadLength", 4, len>>)
               ELSE Ok(<<"Have", BE32(payload, 1)>>)
         [] id = 5 -> Ok(<<"Bitfield", payload>>)
         [] id \in {6, 8} ->
               IF len # 12 THEN Err(<<"InvalidPayloadLength", 12, len>>)
               ELSE Ok(<<IF id = 6 THEN "Request" ELSE "Cancel",
                         BE32(payload, 1), BE32(payload, 5), BE32(payload, 9)>>)
         [] id = 7 ->
               IF len < 8 THEN Err(<<"InvalidPayloadLength", 8, len>>)
               ELSE Ok(<<"Piece", BE32(payload, 1), BE32(payload, 5),
                         Drop(payload, 8)>>)
         [] id = 20 -> Ok(<<"Extended", payload>>)
         [] OTHER -> Err(<<"InvalidMessageId", id>>)

\* peer.rs:214-249, Peer::read_message on the bytes the reader still holds:
\* the outcome and the bytes left in the reader; read_exact fails on a
\* stream that ends early
read_message(stream) ==
    IF Len(stream) < 4 THEN [res |-> Err(<<"IoError">>), rest |-> <<>>]
    ELSE LET len == BE32(stream, 1)
             payload_len == PayloadLen(len)
         IN IF len = 0 THEN [res |-> Ok(<<"KeepAlive">>), rest |-> Drop(stream, 4)]
            ELSE IF Len(stream) < 5 THEN [res |-> Err(<<"IoError">>), rest |-> <<>>]
            ELSE IF stream[5] > 9 /\ stream[5] # 20
            THEN [res |-> Err(<<"InvalidMessageId", stream[5]>>),
                  rest |-> Drop(stream, 5)]
            ELSE IF payload_len > 0
            THEN (IF Len(stream) < 5 + payload_len
                  THEN [res |-> Err(<<"IoError">>), rest |-> <<>>]
                  ELSE [res |-> from_id_and_payload(stream[5],
                                   SubSeq(stream, 6, 5 + payload_len)),
                        rest |-> Drop(stream, 5 + payload_len)])
            ELSE [res |-> from_id(stream[5]), rest |-> Drop(stream, 5)]

\* longest frame length prefix of the frames fed to read_message
MaxFrameLen == 14

\* a frame with length prefix n >= 1, the given id and a payload of n - 1
\* bytes equal to fill
Frame(n, id, fill) == <<0, 0, 0, n, id>> \o [k \in 1 .. (n - 1) |-> fill]

\* frames of every id of the message table and around it, of every length
Frames ==
    {Frame(n, id, 0) : n \in 1 .. MaxFrameLen, id \in (0 .. 22) \cup {255}}

\* the frames of the wire-format examples: KeepAlive, Have(7), Unchoke
ExampleFrames ==
    {<<0, 0, 0, 0>>, <<0, 0, 0, 5, 4, 0, 0, 0, 7>>, <<0, 0, 0, 1, 1>>}

\* what a peer may have sent when read_message is called: one frame, or two
\* frames back to back, or a frame cut short
Streams ==
    Frames \cup ExampleFrames
    \cup {a \o b : a \in ExampleFrames \cup {Frame(13, 6, 1), Frame(10, 7, 2)},
                   b \in ExampleFrames \cup {Frame(5, 4, 0)}}
    \cup {Take(a, Len(a) - 1) : a \in ExampleFrames}

\* a task calls read_message again and again on one stream until the stream
\* is used up or a call fails (handle_peer's loop, torrent.rs:308-310)
ReadMessageCall ==
    /\ call.fn = "read_message"
    /\ call.rest # <<>>
    /\ \A k \in 1 .. Len(call.ret) : call.ret[k].kind = "ok"
    /\ LET r == read_message(call.rest)
       IN call' = [call EXCEPT !.rest = r.rest, !.ret = Append(@, r.res)]
    /\ UNCHANGED <<overflow_checks, swarm, file_bitfield, available_pieces,
                   connected_peers, locks, chan, chan_open, asm, received_blocks,
                   pieces, file, main, sess, rel, deviations>>

\* the calls of read_message
ReadMessageCalls ==
    {[fn |-> "read_message", arg |-> s, rest |-> s, ret |-> <<>>] : s \in Streams}

\* the bytes of "BitTorrent protocol"
ProtocolName ==
    <<66, 105, 116, 84, 111, 114, 114, 101, 110, 116, 32,
      112, 114, 111, 116, 111, 99, 111, 108>>

\* a handshake whose reserved bytes are all equal to r
HandshakeWith(r, info_hash, peer_id) ==
    <<19>> \o ProtocolName \o [k \in 1 .. 8 |-> r] \o info_hash \o peer_id

\* a handshake with eight reserved bytes of value zero
HandshakeZeroReserved(info_hash, peer_id) == HandshakeWith(0, info_hash, peer_id)

\* peer.rs:182-193, the buffer handshake writes: write! formats
\* "{}BitTorrent protocol00000000" with 19 as char, so the reserved bytes
\* are eight ASCII digits '0' (0x30), followed by info_hash and peer_id
HandshakeBytes(info_hash, peer_id) == HandshakeWith(48, info_hash, peer_id)

\* number of distinct 20-byte identifiers given to handshake and sent back
MaxIds == 2

\* a 20-byte info_hash or peer_id
Id(h) == [k \in 1 .. 20 |-> h]

Ids == {Id(h) : h \in 1 .. MaxIds}

\* outcomes of one reader.read(&mut handshake) (peer.rs:203): some bytes, a
\* timeout, or another I/O error
Data(bytes) == [kind |-> "data", bytes |-> bytes]

TimedOut == [kind |-> "timedout", bytes |-> <<>>]

Reset == [kind |-> "reset", bytes |-> <<>>]

\* read returns Ok(0): the peer has closed the connection
Eof == Data(<<>>)

\* what the remote side does after receiving the handshake: it answers with
\* a handshake of its own (whole, after a timeout, or arriving in two
\* reads), or the connection fails, or the peer closes it before or in the
\* middle of its handshake
Responses ==
    UNION {LET h == HandshakeWith(0, ih, Id(1))
           IN {<<Data(h)>>, <<TimedOut, Data(h)>>,
               <<Data(Take(h, 20)), Data(Drop(h, 20))>>,
               <<Data(Take(h, 40)), Data(Drop(h, 40))>>,
               <<Data(Take(h, 40)), Eof>>}
           : ih \in Ids}
    \cup {<<Reset>>, <<TimedOut, Reset>>, <<Eof>>}

\* peer.rs:204-209, one turn of the loop on one read outcome: a read of
\* exactly 68 bytes ends the handshake with Ok, any other count and a
\* timeout go round again, any other error is returned
HandshakeRead(r) ==
    CASE r.kind = "data" /\ Len(r.bytes) = 68 -> <<Ok(r.bytes)>>
      [] r.kind = "data" -> <<>>
      [] r.kind = "timedout" -> <<>>
      [] OTHER -> <<Err(<<"IoError">>)>>

\* peer.rs:179-197, handshake builds and writes its 68 bytes
HandshakeSend ==
    /\ call.fn = "handshake"
    /\ call.out = <<>>
    /\ call' = [call EXCEPT !.out = HandshakeBytes(call.arg[1], call.arg[2])]
    /\ UNCHANGED <<overflow_checks, swarm, file_bitfield, available_pieces,
                   connected_peers, locks, chan, chan_open, asm, received_blocks,
                   pieces, file, main, sess, rel, deviations>>

\* peer.rs:199-210, handshake's read loop takes the next read outcome
HandshakeRecv ==
    /\ call.fn = "handshake"
    /\ call.out # <<>>
    /\ call.ret = <<>>
    /\ call.rest # <<>>
    /\ call' = [call EXCEPT !.rest = Tail(@),
                            !.ret = HandshakeRead(Head(call.rest))]
    /\ UNCHANGED <<overflow_checks, swarm, file_bitfield, available_pieces,
                   connected_peers, locks, chan, chan_open, asm, received_blocks,
                   pieces, file, main, sess, rel, deviations>>

\* the calls of handshake: arg is <<info_hash, peer_id, reads>>
HandshakeCalls ==
    {[fn |-> "handshake", arg |-> <<ih, Id(2), rs>>, rest |-> rs,
      out |-> <<>>, ret |-> <<>>] : ih \in Ids, rs \in Responses}

\* the wire routines of peer.rs run on their own, on every input above
WireInit ==
    call \in ReadMessageCalls \cup HandshakeCalls /\ Constructed({Lone})

WireNext == ReadMessageCall \/ HandshakeSend \/ HandshakeRecv

WireSpec == WireInit /\ [][WireNext]_vars

\* ------------------------------------------------- bencode (bencode.rs)

\* the bytes b'0', b'-', b':', b'd', b'e', b'i', b'l', b'\n'
Ch0 == 48

ChMinus == 45

ChColon == 58

ChD == 100

ChE == 101

ChI == 105

ChL == 108

ChNewline == 10

\* u8::is_ascii_digit
IsDigit(b) == b \in 48 .. 57

\* raw[i] with Rust's 0-based index; the caller checks i < raw.len()
At(raw, i) == raw[i + 1]

\* &raw[a..b]
Slice(raw, a, b) == SubSeq(raw, a + 1, b)

\* str::parse::<usize> of a run of ASCII digits
RECURSIVE ParseNat(_)
ParseNat(digits) ==
    IF digits = <<>> THEN 0
    ELSE 10 * ParseNat(Take(digits, Len(digits) - 1))
         + (digits[Len(digits)] - 48)

\* bencode.rs:86-88 and 135-137, while self.current < self.raw.len() &&
\* self.raw[self.current].is_ascii_digit() { self.current += 1 }
RECURSIVE SkipDigits(_, _)
SkipDigits(raw, current) ==
    IF current < Len(raw) /\ IsDigit(At(raw, current))
    THEN SkipDigits(raw, current + 1)
    ELSE current

\* Option::None of Iterator::next
None == [kind |-> "none", val |-> <<>>]

\* what Iter::next leaves: the item returned and self.current
Item(item, current) == [item |-> item, current |-> current]

\* BTreeMap::insert on a map kept as a set of <<key, value>> pairs
MapInsert(map, key, val) == {p \in map : p[1] # key} \cup {<<key, val>>}

\* bencode.rs:118, the second half of the leading-zero test: len is the
\* number of bytes from the integer's 'i' to the end of the whole input
LeadingZeroLen(len) == len > 3

\* bencode.rs:107-149, the integer branch of Iter::next; begin is the index
\* of b'i', len the number of bytes from begin to the end of raw. An index
\* at raw.len() panics
next_integer(raw, begin, len) ==
    LET c1 == begin + 1
        first == At(raw, c1)
        negative == first = ChMinus
        c2 == IF negative THEN c1 + 1 ELSE c1
        c3 == SkipDigits(raw, c2)
    IN IF first = ChE THEN Item(Err(<<"EmptyInteger">>), c1)
       ELSE IF ~negative /\ first = Ch0 /\ LeadingZeroLen(len)
       THEN Item(Err(<<"LeadingZero">>), c1)
       ELSE IF ~negative /\ ~IsDigit(first)
       THEN Item(Err(<<"NotAnInteger">>), c1)
       ELSE IF c2 >= Len(raw) THEN Item(Panic, c2)
       ELSE IF negative /\ At(raw, c2) = Ch0
       THEN Item(Err(<<"NegativeZero">>), c2)
       ELSE IF c3 >= Len(raw) THEN Item(Panic, c3)
       ELSE IF At(raw, c3) # ChE THEN Item(Err(<<"UnclosedInteger">>), c3)
       ELSE Item(Ok(<<"Integer", Slice(raw, begin + 1, c3),
                      Slice(raw, begin, c3 + 1)>>), c3 + 1)

\* bencode.rs:85-106, the byte string branch of Iter::next
next_string(raw, begin) ==
    LET c2 == SkipDigits(raw, begin + 1)
        length == ParseNat(Slice(raw, begin, c2))
        str_begin == c2 + 1
        c4 == str_begin + length
    IN IF c2 >= Len(raw) THEN Item(Panic, c2)
       ELSE IF At(raw, c2) # ChColon THEN Item(Err(<<"MissingColon">>), c2)
       ELSE IF c4 > Len(raw) THEN Item(Panic, c4)
       ELSE Item(Ok(<<"String", Slice(raw, str_begin, c4),
                      Slice(raw, begin, c4)>>), c4)

RECURSIVE next(_, _)
RECURSIVE next_list(_, _, _, _)
RECURSIVE next_dict(_, _, _, _)

\* bencode.rs:150-169, the list branch: the while let loop from current
\* with vec collected so far, then the closing b'e'
next_list(raw, begin, current, vec) ==
    LET object == next(raw, current)
    IN CASE object.item.kind = "ok" ->
               next_list(raw, begin, object.current, Append(vec, object.item.val))
         [] object.item.kind \in {"err", "panic"} -> object
         [] OTHER ->
               IF object.current >= Len(raw) THEN Item(Panic, object.current)
               ELSE IF At(raw, object.current) # ChE
               THEN Item(Err(<<"UnclosedList">>), object.current)
               ELSE Item(Ok(<<"List", vec, Slice(raw, begin, object.current + 1)>>),
                         object.current + 1)

\* bencode.rs:170-194, the dictionary branch: both self.next() of the while
\* let tuple are evaluated on every turn, key first
next_dict(raw, begin, current, map) ==
    LET key == next(raw, current)
        val == next(raw, key.current)
    IN CASE key.item.kind = "panic" -> key
         [] val.item.kind = "panic" -> val
         [] key.item.kind # "none" /\ val.item.kind # "none" ->
               IF key.item.kind = "err" THEN Item(key.item, val.current)
               ELSE IF val.item.kind = "err" THEN val
               ELSE next_dict(raw, begin, val.current,
                              MapInsert(map, key.item.val, val.item.val))
         [] OTHER ->
               IF val.current >= Len(raw) THEN Item(Panic, val.current)
               ELSE IF At(raw, val.current) # ChE
               THEN Item(Err(<<"UnclosedMap">>), val.current)
               ELSE Item(Ok(<<"Map", map, Slice(raw, begin, val.current + 1)>>),
                         val.current + 1)

\* bencode.rs:72-201, Iter::next with self.current = current
next(raw, current) ==
    LET len == Len(raw) - current
        begin == current
    IN IF len < 2 THEN Item(None, current)
       ELSE CASE IsDigit(At(raw, begin)) -> next_string(raw, begin)
              [] At(raw, begin) = ChI -> next_integer(raw, begin, len)
              [] At(raw, begin) = ChL -> next_list(raw, begin, begin + 1, <<>>)
              [] At(raw, begin) = ChD -> next_dict(raw, begin, begin + 1, {})
              [] OTHER -> Item(None, begin)

\* bencode.rs:261-265, bedecode: the first item of the iterator, or
\* NotEnoughBytes
bedecode(raw) ==
    LET first == next(raw, 0).item
    IN IF first.kind = "none" THEN Err(<<"NotEnoughBytes">>) ELSE first

\* bencode.rs:228-234, Bedecode::try_into_dict
try_into_dict(raw) ==
    LET r == bedecode(raw)
    IN IF r.kind = "ok" /\ r.val[1] # "Map" THEN Err(<<"ExpectedMap">>) ELSE r

\* the integers given to the decoder: ie, i-0e, i-03e, i03e, i00e, i10e,
\* i-10e, i0e, i5e, i-5e
IntegerTexts ==
    {<<>>, <<45, 48>>, <<45, 48, 51>>, <<48, 51>>, <<48, 48>>, <<49, 48>>,
     <<45, 49, 48>>, <<48>>, <<53>>, <<45, 53>>}

Integers == {<<ChI>> \o t \o <<ChE>> : t \in IntegerTexts}

\* the places of a document an integer is decoded at: alone, the only
\* element of a list, after a string in a list, before a string in a list,
\* a dictionary value, in a list in a list
Places == 1 .. 6

\* the string 1:a
StrA == <<49, ChColon, 97>>

\* the document with integer i at place p
Document(p, i) ==
    CASE p = 1 -> i
      [] p = 2 -> <<ChL>> \o i \o <<ChE>>
      [] p = 3 -> <<ChL>> \o StrA \o i \o <<ChE>>
      [] p = 4 -> <<ChL>> \o i \o StrA \o <<ChE>>
      [] p = 5 -> <<ChD>> \o StrA \o i \o <<ChE>>
      [] p = 6 -> <<ChL, ChL>> \o i \o <<ChE, ChE>>

\* bedecode is called on a document
BedecodeCall ==
    /\ call.fn = "bedecode"
    /\ call.ret = <<>>
    /\ call' = [call EXCEPT !.ret = <<bedecode(call.arg)>>]
    /\ UNCHANGED <<overflow_checks, swarm, file_bitfield, available_pieces,
                   connected_peers, locks, chan, chan_open, asm, received_blocks,
                   pieces, file, main, sess, rel, deviations>>

\* inputs that end early or lack a terminator, each with the error kind
\* that names what is missing: i10 li10 i10x, li1e l1:a li1ex, d1:ai1e
\* d1:a1:b d1:ai1ex, 12 12a l12, 5:ab l5:ab d1:a5:ab
Unterminated ==
    {<<<<105, 49, 48>>, "UnclosedInteger">>,
     <<<<108, 105, 49, 48>>, "UnclosedInteger">>,
     <<<<105, 49, 48, 120>>, "UnclosedInteger">>,
     <<<<108, 105, 49, 101>>, "UnclosedList">>,
     <<<<108, 49, 58, 97>>, "UnclosedList">>,
     <<<<108, 105, 49, 101, 120>>, "UnclosedList">>,
     <<<<100, 49, 58, 97, 105, 49, 101>>, "UnclosedMap">>,
     <<<<100, 49, 58, 97, 49, 58, 98>>, "UnclosedMap">>,
     <<<<100, 49, 58, 97, 105, 49, 101, 120>>, "UnclosedMap">>,
     <<<<49, 50>>, "MissingColon">>,
     <<<<49, 50, 97>>, "MissingColon">>,
     <<<<108, 49, 50>>, "MissingColon">>,
     <<<<53, 58, 97, 98>>, "NotEnoughBytes">>,
     <<<<108, 53, 58, 97, 98>>, "NotEnoughBytes">>,
     <<<<100, 49, 58, 97, 53, 58, 97, 98>>, "NotEnoughBytes">>}

\* documents with containers, as in the tests of lists and dictionaries:
\* l4:spam4:eggse d3:cow3:moo4:spam4:eggse d4:spaml1:a1:bee le de
\* lli1eel2:abee d1:bi1e1:ai2ee ld1:ali5eeee
Containers ==
    {<<108, 52, 58, 115, 112, 97, 109, 52, 58, 101, 103, 103, 115, 101>>,
     <<100, 51, 58, 99, 111, 119, 51, 58, 109, 111, 111, 52, 58, 115, 112, 97, 109, 52, 58, 101, 103, 103, 115, 101>>,
     <<100, 52, 58, 115, 112, 97, 109, 108, 49, 58, 97, 49, 58, 98, 101, 101>>,
     <<108, 101>>,
     <<100, 101>>,
     <<108, 108, 105, 49, 101, 101, 108, 50, 58, 97, 98, 101, 101>>,
     <<100, 49, 58, 98, 105, 49, 101, 49, 58, 97, 105, 50, 101, 101>>,
     <<108, 100, 49, 58, 97, 108, 105, 53, 101, 101, 101, 101>>}

\* dictionaries, each with the keys and the raw values of its pairs in the
\* order of the input, <<>> for a key that no value follows: d1:ai1e1:ai2ee
\* d1:ae d1:ai1e1:be ld1:ai1e1:ai2eee d1:a1:x1:a1:xe d3:cow3:moo4:spam4:eggse
\* d1:bi1e1:ai2ee
Dictionaries ==
    {<<<<100, 49, 58, 97, 105, 49, 101, 49, 58, 97, 105, 50, 101, 101>>, <<<<<<97>>, <<105, 49, 101>>>>, <<<<97>>, <<105, 50, 101>>>>>>>>,
     <<<<100, 49, 58, 97, 101>>, <<<<<<97>>, <<>>>>>>>>,
     <<<<100, 49, 58, 97, 105, 49, 101, 49, 58, 98, 101>>, <<<<<<97>>, <<105, 49, 101>>>>, <<<<98>>, <<>>>>>>>>,
     <<<<108, 100, 49, 58, 97, 105, 49, 101, 49, 58, 97, 105, 50, 101, 101, 101>>, <<<<<<97>>, <<105, 49, 101>>>>, <<<<97>>, <<105, 50, 101>>>>>>>>,
     <<<<100, 49, 58, 97, 49, 58, 120, 49, 58, 97, 49, 58, 120, 101>>, <<<<<<97>>, <<49, 58, 120>>>>, <<<<97>>, <<49, 58, 120>>>>>>>>,
     <<<<100, 51, 58, 99, 111, 119, 51, 58, 109, 111, 111, 52, 58, 115, 112, 97, 109, 52, 58, 101, 103, 103, 115, 101>>, <<<<<<99, 111, 119>>, <<51, 58, 109, 111, 111>>>>, <<<<115, 112, 97, 109>>, <<52, 58, 101, 103, 103, 115>>>>>>>>,
     <<<<100, 49, 58, 98, 105, 49, 101, 49, 58, 97, 105, 50, 101, 101>>, <<<<<<98>>, <<105, 49, 101>>>>, <<<<97>>, <<105, 50, 101>>>>>>>>}

\* the calls of bedecode: arg is the document, int the integer in it at
\* place
BedecodeCalls ==
    {[fn |-> "bedecode", arg |-> Document(p, i), place |-> p, int |-> i,
      ret |-> <<>>] : p \in Places, i \in Integers}
    \cup {[fn |-> "bedecode", arg |-> t[1], place |-> 0, int |-> <<>>,
           ret |-> <<>>] : t \in Unterminated}
    \cup {[fn |-> "bedecode", arg |-> d, place |-> 7, int |-> <<>>,
           ret |-> <<>>] : d \in Containers \cup {t[1] : t \in Dictionaries}}

\* ------------------------------------------ tracker responses (tracker.rs)

\* the byte string s as a Type::String, with its raw bencoding
RECURSIVE Decimal(_)
Decimal(n) == IF n < 10 THEN <<48 + n>> ELSE Decimal(n \div 10) \o <<48 + (n % 10)>>

Bencoded(s) == Decimal(Len(s)) \o <<ChColon>> \o s

StringValue(s) == <<"String", s, Bencoded(s)>>

\* slice::chunks(6): consecutive chunks of six bytes, the last one shorter
\* when the length is not a multiple of six
RECURSIVE Chunks(_)
Chunks(bytes) ==
    IF bytes = <<>> THEN <<>>
    ELSE IF Len(bytes) <= 6 THEN <<bytes>>
    ELSE <<Take(bytes, 6)>> \o Chunks(Drop(bytes, 6))

\* tracker.rs:171, u16::from_be_bytes([addr_bytes[4], addr_bytes[5]])
Port(hi, lo) == hi * 256 + lo

\* tracker.rs:170-172, one SocketAddr from a chunk of six bytes
SocketAddrV4(addr_bytes) ==
    [ip |-> Take(addr_bytes, 4), port |-> Port(addr_bytes[5], addr_bytes[6])]

\* the parts of text between its dots
RECURSIVE SplitDots(_, _)
SplitDots(text, part) ==
    IF text = <<>> THEN <<part>>
    ELSE IF Head(text) = 46 THEN <<part>> \o SplitDots(Tail(text), <<>>)
    ELSE SplitDots(Tail(text), Append(part, Head(text)))

\* tracker.rs:201, string.parse().unwrap() of a dotted-quad address; any
\* other text panics (IPv6 text is not among the inputs)
ParseIp(text) ==
    LET parts == SplitDots(text, <<>>)
    IN IF /\ Len(parts) = 4
          /\ \A k \in 1 .. 4 :
                /\ parts[k] # <<>> /\ Len(parts[k]) <= 3
                /\ \A j \in 1 .. Len(parts[k]) : IsDigit(parts[k][j])
                /\ ParseNat(parts[k]) <= 255
       THEN Ok([k \in 1 .. 4 |-> ParseNat(parts[k])])
       ELSE Panic

\* str::parse of an unsigned integer followed by unwrap(): a text that is
\* not a run of digits panics
ParseUnsigned(text) ==
    IF text # <<>> /\ \A k \in 1 .. Len(text) : IsDigit(text[k])
    THEN Ok(ParseNat(text))
    ELSE Panic

\* the values of the dictionary map under the byte string name that have
\* the given Type variant
Entries(map, name, variant) ==
    {p[2] : p \in {q \in map : q[1][1] = "String" /\ q[1][2] = name
                                  /\ q[2][1] = variant}}

\* tracker.rs:186-216, one peer of the dictionary model
PeerOfDict(dict) ==
    LET peer_id == Entries(dict[2], <<112, 101, 101, 114, 32, 105, 100>>, "String")
        ip == Entries(dict[2], <<105, 112>>, "String")
        port == Entries(dict[2], <<112, 111, 114, 116>>, "Integer")
        keys == {p[1] : p \in dict[2]}
    IN IF dict[1] # "Map" THEN Err(<<"DecodingError", "ExpectedMap">>)
       ELSE IF \E k \in keys : k[1] # "String" THEN Panic
       ELSE IF \E v \in ip : ParseIp(v[2]) = Panic THEN Panic
       ELSE IF \E v \in port : ParseUnsigned(v[2]) = Panic THEN Panic
       ELSE IF peer_id = {} THEN Err(<<"MissingPeerId">>)
       ELSE IF ip = {} THEN Err(<<"MissingPeerIp">>)
       ELSE IF port = {} THEN Err(<<"MissingPeerPort">>)
       ELSE Ok(<<[ip |-> ParseIp((CHOOSE v \in ip : TRUE)[2]).val,
                  port |-> ParseUnsigned((CHOOSE v \in port : TRUE)[2]).val],
                 (CHOOSE v \in peer_id : TRUE)[2]>>)

\* tracker.rs:183-219, the peers of the dictionary model, in order, up to
\* the first one that fails
RECURSIVE PeersOfList(_, _)
PeersOfList(list, vec) ==
    IF list = <<>> THEN Ok(<<"Dictionary", vec>>)
    ELSE LET r == PeerOfDict(Head(list))
         IN IF r.kind # "ok" THEN r
            ELSE PeersOfList(Tail(list), Append(vec, r.val))

\* tracker.rs:162-220, Peers::from_bencode_type: a byte string is cut into
\* chunks of six bytes and each chunk indexed up to [5], which panics on a
\* shorter chunk; any other value is read as a list of dictionaries
from_bencode_type(value) ==
    IF value[1] = "String"
    THEN LET chunks == Chunks(value[2])
         IN IF \E k \in 1 .. Len(chunks) : Len(chunks[k]) < 6 THEN Panic
            ELSE Ok(<<"Binary", [k \in 1 .. Len(chunks) |-> SocketAddrV4(chunks[k])]>>)
    ELSE IF value[1] # "List" THEN Err(<<"DecodingError", "ExpectedList">>)
    ELSE PeersOfList(value[2], <<>>)

\* longest compact peers string given to the decoder, in bytes
MaxPeersLen == 13

\* the six bytes of 10.0.0.1:6881 and of 10.100.0.1:6881
PeerA == <<10, 0, 0, 1, 26, 225>>

PeerB == <<10, 100, 0, 1, 26, 225>>

\* compact peers strings of every length up to MaxPeersLen: the bytes of
\* PeerA and PeerB alternating, cut at that length
CompactOf(first, len) ==
    [k \in 1 .. len |->
        (IF ((k - 1) \div 6) % 2 = 0 THEN first
         ELSE IF first = PeerA THEN PeerB ELSE PeerA)[((k - 1) % 6) + 1]]

CompactStrings == {CompactOf(f, n) : f \in {PeerA, PeerB}, n \in 0 .. MaxPeersLen}

\* Peers::from_bencode_type is called on a decoded value
PeersCall ==
    /\ call.fn = "from_bencode_type"
    /\ call.ret = <<>>
    /\ call' = [call EXCEPT !.ret = <<from_bencode_type(call.arg)>>]
    /\ UNCHANGED <<overflow_checks, swarm, file_bitfield, available_pieces,
                   connected_peers, locks, chan, chan_open, asm, received_blocks,
                   pieces, file, main, sess, rel, deviations>>

\* the calls of Peers::from_bencode_type: compact strings, an integer, an
\* empty list
PeersCalls ==
    {[fn |-> "from_bencode_type", arg |-> v, ret |-> <<>>] :
        v \in {StringValue(b) : b \in CompactStrings}
              \cup {<<"Integer", <<53>>, <<ChI, 53, ChE>>>>,
                    <<"List", <<>>, <<ChL, ChE>>>>}}

\* the names of the keys of a tracker response
KeyComplete == <<99, 111, 109, 112, 108, 101, 116, 101>>

KeyIncomplete == <<105, 110, 99, 111, 109, 112, 108, 101, 116, 101>>

KeyInterval == <<105, 110, 116, 101, 114, 118, 97, 108>>

KeyMinInterval == <<109, 105, 110, 32, 105, 110, 116, 101, 114, 118, 97, 108>>

KeyPeers == <<112, 101, 101, 114, 115>>

KeyTrackerId == <<116, 114, 97, 99, 107, 101, 114, 32, 105, 100>>

KeyWarningMessage == <<119, 97, 114, 110, 105, 110, 103, 32, 109, 101, 115, 115, 97, 103, 101>>

\* tracker.rs:268-275, where decoding starts: the loop over bytes.windows(2)
\* has no break, so begin ends at the 'd' of the last newline-'d' pair of
\* the whole response, or 0 when there is none
Begin(bytes) ==
    LET pairs == {i \in 0 .. (Len(bytes) - 2) :
                     At(bytes, i) = ChNewline /\ At(bytes, i + 1) = ChD}
    IN IF pairs = {} THEN 0
       ELSE (CHOOSE i \in pairs : \A j \in pairs : j <= i) + 1

\* Option<T>: no value, or the value v
Absent == <<>>

Some(v) == <<v>>

\* one optional integer field, parsed with unwrap()
IntField(map, name) ==
    LET vs == Entries(map, name, "Integer")
    IN IF vs = {} THEN Ok(Absent)
       ELSE LET n == ParseUnsigned((CHOOSE v \in vs : TRUE)[2])
            IN IF n.kind = "ok" THEN Ok(Some(n.val)) ELSE n

\* one optional string field
StrField(map, name) ==
    LET vs == Entries(map, name, "String")
    IN IF vs = {} THEN Absent ELSE Some((CHOOSE v \in vs : TRUE)[2])

\* tracker.rs:278-326, the fields of a response taken from the result of
\* try_into_dict; the entries are visited in the order of the BTreeMap, byte
\* string keys in byte order before any other key
FieldsOf(dict) ==
    IF dict.kind = "panic" THEN Panic
    ELSE IF dict.kind = "err" THEN Err(<<"DecodingError", dict.val[1]>>)
    ELSE LET map == dict.val[2]
             complete == IntField(map, KeyComplete)
             incomplete == IntField(map, KeyIncomplete)
             interval == IntField(map, KeyInterval)
             min_interval == IntField(map, KeyMinInterval)
             values == {p[2] : p \in {q \in map : q[1][1] = "String"
                                         /\ q[1][2] = KeyPeers}}
             peers == IF values = {} THEN Ok(Absent)
                      ELSE LET r == from_bencode_type(CHOOSE v \in values : TRUE)
                           IN IF r.kind = "ok" THEN Ok(Some(r.val)) ELSE r
         IN IF complete.kind # "ok" THEN complete
            ELSE IF incomplete.kind # "ok" THEN incomplete
            ELSE IF interval.kind # "ok" THEN interval
            ELSE IF min_interval.kind # "ok" THEN min_interval
            ELSE IF peers.kind # "ok" THEN peers
            ELSE IF \E q \in map : q[1][1] # "String"
            THEN Err(<<"DecodingError", "ExpectedString">>)
            ELSE IF interval.val = Absent THEN Err(<<"MissingInterval">>)
            ELSE IF peers.val = Absent THEN Err(<<"MissingPeers">>)
            ELSE Ok([warning_message |-> StrField(map, KeyWarningMessage),
                     interval |-> interval.val[1],
                     min_interval |-> min_interval.val,
                     tracker_id |-> StrField(map, KeyTrackerId),
                     complete |-> complete.val,
                     incomplete |-> incomplete.val,
                     peers |-> peers.val[1]])

\* tracker.rs:267-327, TrackerResponse::from_bencode
from_bencode(bytes) ==
    FieldsOf(try_into_dict(Slice(bytes, Begin(bytes), Len(bytes))))

\* HTTP headers of a tracker's answer, ending with the empty line: a status
\* line alone, and one followed by a date line
Headers ==
    {<<72, 84, 84, 80, 47, 49, 46, 49, 32, 50, 48, 48, 32, 79, 75, 13, 10, 13, 10>>,
     <<72, 84, 84, 80, 47, 49, 46, 49, 32, 50, 48, 48, 32, 79, 75, 13, 10, 100, 97, 116, 101, 58, 32, 120, 13, 10, 13, 10>>}

\* response bodies: a dictionary with interval and compact peers, with or
\* without the complete and incomplete counts
Bodies ==
    {<<ChD>> \o counts \o Bencoded(KeyInterval) \o <<105, 49, 56, 48, 48, 101>>
            \o Bencoded(KeyPeers) \o Bencoded(peers) \o <<ChE>> :
        counts \in {<<>>, Bencoded(KeyComplete) \o <<105, 53, 101>>
                          \o Bencoded(KeyIncomplete) \o <<105, 51, 101>>},
        peers \in {c \in CompactStrings : Len(c) % 6 = 0}}

\* TrackerResponse::from_bencode is called on the bytes read
FromBencodeCall ==
    /\ call.fn = "from_bencode"
    /\ call.ret = <<>>
    /\ call' = [call EXCEPT !.ret = <<from_bencode(call.arg)>>]
    /\ UNCHANGED <<overflow_checks, swarm, file_bitfield, available_pieces,
                   connected_peers, locks, chan, chan_open, asm, received_blocks,
                   pieces, file, main, sess, rel, deviations>>

\* the calls of from_bencode: arg is a header followed by a body
FromBencodeCalls ==
    {[fn |-> "from_bencode", arg |-> h \o d, header |-> h, body |-> d,
      ret |-> <<>>] : h \in Headers, d \in Bodies}

\* ------------------------------------------------ announce (tracker.rs)

\* number of I/O operations of one announce the model follows
MaxIo == 3

\* outcomes of stream.write_all (tracker.rs:358-366): written; connection
\* reset, aborted or permission denied followed by a reconnect that succeeds
\* or is refused; any other I/O error
WriteOutcomes == {"ok", "reset", "reset_refused", "other"}

\* outcomes of reading the response to its end (tracker.rs:369-395): the
\* bytes; connection reset followed by a reconnect that succeeds or is
\* refused; a timeout; any other I/O error
ReadOutcomes == {"data", "reset", "reset_refused", "timedout", "other"}

\* tracker.rs:391-394, Err(err) => { eprintln!("{:?}", err); continue; }
OtherReadError(c) == [c EXCEPT !.pc = "write"]

\* tracker.rs:358-366, one turn of the loop up to the write of the request
AnnounceWrite ==
    /\ call.fn = "announce"
    /\ call.ret = <<>>
    /\ call.pc = "write"
    /\ call.io < MaxIo
    /\ \E o \in WriteOutcomes :
          LET c == [call EXCEPT !.io = @ + 1, !.last = <<"write", o>>]
          IN call' = CASE o = "ok" -> [c EXCEPT !.pc = "read"]
                       [] o = "reset" -> c
                       [] OTHER -> [c EXCEPT !.ret = <<Err(<<"IoError">>)>>]
    /\ UNCHANGED <<overflow_checks, swarm, file_bitfield, available_pieces,
                   connected_peers, locks, chan, chan_open, asm, received_blocks,
                   pieces, file, main, sess, rel, deviations>>

\* tracker.rs:369-395, the read of the response and the match on its result
AnnounceRead ==
    /\ call.fn = "announce"
    /\ call.ret = <<>>
    /\ call.pc = "read"
    /\ call.io < MaxIo
    /\ \E o \in ReadOutcomes :
          LET c == [call EXCEPT !.io = @ + 1, !.last = <<"read", o>>]
              decoded == from_bencode(call.arg)
          IN call' =
                CASE o = "data" /\ call.arg = <<>> -> [c EXCEPT !.pc = "write"]
                  [] o = "data" /\ call.arg # <<>> ->
                        IF decoded.kind = "ok"
                        THEN [c EXCEPT !.response = <<decoded.val>>,
                                       !.ret = <<Ok(<<>>)>>]
                        ELSE [c EXCEPT !.ret = <<Panic>>]
                  [] o = "reset" -> [c EXCEPT !.pc = "write"]
                  [] o = "reset_refused" -> [c EXCEPT !.ret = <<Err(<<"IoError">>)>>]
                  [] o = "timedout" -> [c EXCEPT !.pc = "write"]
                  [] OTHER -> OtherReadError(c)
    /\ UNCHANGED <<overflow_checks, swarm, file_bitfield, available_pieces,
                   connected_peers, locks, chan, chan_open, asm, received_blocks,
                   pieces, file, main, sess, rel, deviations>>

\* the calls of announce: arg is what the tracker answers when a read
\* succeeds: nothing, a response, or a response that does not decode
AnnounceCalls ==
    {[fn |-> "announce", arg |-> a, pc |-> "write", io |-> 0, last |-> <<>>,
      response |-> <<>>, ret |-> <<>>] :
        a \in {<<>>} \cup {h \o d : h \in Headers,
                                    d \in {b \in Bodies : Len(b) <= 38}}
                     \cup {<<ChL, ChE>>}}

\* the decoding routines of bencode.rs and tracker.rs run on their own
DecodeInit ==
    call \in BedecodeCalls \cup PeersCalls \cup FromBencodeCalls \cup AnnounceCalls
    /\ Constructed({Lone})

DecodeNext ==
    BedecodeCall \/ PeersCall \/ FromBencodeCall \/ AnnounceWrite \/ AnnounceRead

DecodeSpec == DecodeInit /\ [][DecodeNext]_vars

\* ------------------------------------- one message on one session

\* sessions waiting in read_message (torrent.rs:310): created by Peer::new
\* with the piece count read at torrent.rs:295, then possibly past a
\* Bitfield, an Unchoke, an Interested sent and a piece taken
HandleStates ==
    {[NewSession("A") EXCEPT !.pc = "read", !.pieces = n, !.bitfield = bv,
                             !.is_choking = c, !.am_interested = ai, !.piece = p] :
        n \in {NumPieces - 1, NumPieces},
        bv \in {BitVecNew(NumPieces - 1), BitVecNew(NumPieces),
                BitVecFromBytes(1, {0}), BitVecFromBytes(1, Pieces)},
        c \in BOOLEAN, ai \in BOOLEAN, p \in {NoPiece, 0}}

\* the messages read_message can return to the match of torrent.rs:313; a
\* Bitfield payload has one or two bytes, a Have index may lie outside the
\* torrent
HandleMessages ==
    {Msg(k, 0, 0, 0, TRUE, {}) :
        k \in {"KeepAlive", "Choke", "Unchoke", "Interested", "NotInterested"}}
    \cup {Msg("Have", i, 0, 0, TRUE, {}) : i \in 0 .. NumPieces}
    \cup {Msg("Bitfield", 0, 0, n, TRUE, b) : n \in 1 .. 2, b \in {{}, {0}, Pieces}}

\* the calls of the match: a session, the message it reads
HandleCalls ==
    {[fn |-> "handle", st |-> st, arg |-> m, ret |-> <<>>] :
        st \in {h \in HandleStates :
                   /\ h.bitfield.len < 8 => h.bitfield.len = h.pieces
                   /\ h.piece # NoPiece => h.am_interested /\ BitIsSet(h.bitfield, h.piece)},
        m \in HandleMessages}

\* torrent.rs:313-411: the match arm of the message read, up to its first
\* await
HandleCall ==
    /\ call.fn = "handle"
    /\ call.ret = <<>>
    /\ \E oc \in Builds : call' = [call EXCEPT !.ret = <<Handle(call.st, call.arg, oc)>>]
    /\ UNCHANGED <<overflow_checks, swarm, file_bitfield, available_pieces,
                   connected_peers, locks, chan, chan_open, asm, received_blocks,
                   pieces, file, main, sess, rel, deviations>>

HandleInit == call \in HandleCalls /\ Constructed({Lone})

HandleSpec == HandleInit /\ [][HandleCall]_vars

\* C11: whatever a peer sends, malformed and unexpected messages included,
\* the assembler task keeps running and its channel stays open to the other
\* sessions
C11_AssemblerSurvives == asm.pc # "panicked" /\ chan_open

\* the first frame of the stream given to read_message: its length prefix,
\* its id and whether the stream holds all of it
ArgLen == BE32(call.arg, 1)

ArgId == call.arg[5]

ArgWhole == Len(call.arg) >= 5 /\ ArgLen >= 1 /\ Len(call.arg) >= 4 + ArgLen

\* C12: for every length prefix N >= 1, read_message returns InvalidMessageId
\* for the ids 9..19 and 21 and above, returns a payload-length error for the
\* ids 4, 6, 7, 8 whose payload does not have the length of the message
\* table, and never panics
C12_BadFramesAreErrors ==
    (call.fn = "read_message" /\ Len(call.ret) >= 1 /\ ArgWhole) =>
        LET r == call.ret[1]
        IN /\ r.kind # "panic"
           /\ (ArgId \in 9 .. 19 \/ ArgId >= 21)
                 => r = Err(<<"InvalidMessageId", ArgId>>)
           /\ (\/ ArgId = 4 /\ ArgLen - 1 # 4
               \/ ArgId \in {6, 8} /\ ArgLen - 1 # 12
               \/ ArgId = 7 /\ ArgLen - 1 < 8)
                 => (r.kind = "err" /\ r.val[1] = "InvalidPayloadLength")

\* the message each frame of the wire-format examples stands for
ExampleMessage(f) ==
    CASE f = <<0, 0, 0, 0>> -> Ok(<<"KeepAlive">>)
      [] f = <<0, 0, 0, 5, 4, 0, 0, 0, 7>> -> Ok(<<"Have", 7>>)
      [] f = <<0, 0, 0, 1, 1>> -> Ok(<<"Unchoke">>)

\* the stream s without its first k frames, a frame being its four-byte
\* length prefix N and the N bytes after it
RECURSIVE SkipFrames(_, _)
SkipFrames(s, k) ==
    IF k = 0 THEN s ELSE SkipFrames(Drop(s, 4 + BE32(s, 1)), k - 1)

\* C13: read_message decodes a frame of length prefix 0 as KeepAlive and the
\* example frames as KeepAlive, Have(7) and Unchoke, alone and back to back;
\* after k successful calls the reader holds the stream without exactly its
\* first k frames, no byte lost and none read twice
C13_FramesDecodedInOrder ==
    call.fn = "read_message" =>
        /\ (Len(call.ret) >= 1 /\ Len(call.arg) >= 4 /\ ArgLen = 0)
              => call.ret[1] = Ok(<<"KeepAlive">>)
        /\ \A a \in ExampleFrames :
              /\ (call.arg = a /\ Len(call.ret) >= 1)
                    => call.ret = <<ExampleMessage(a)>>
              /\ \A b \in ExampleFrames :
                    (call.arg = a \o b /\ Len(call.ret) >= 1)
                       => /\ call.ret[1] = ExampleMessage(a)
                          /\ call.rest = IF Len(call.ret) = 1 THEN b ELSE <<>>
                          /\ Len(call.ret) >= 2
                                => call.ret = <<ExampleMessage(a), ExampleMessage(b)>>
        /\ (\A k \in 1 .. Len(call.ret) : call.ret[k].kind = "ok")
              => call.rest = SkipFrames(call.arg, Len(call.ret))

\* Have(7) and Unchoke sent back to back were both decoded, in order, and
\* the reader is left empty
C13_Witness ==
    /\ call.fn = "read_message"
    /\ call.arg = <<0, 0, 0, 5, 4, 0, 0, 0, 7>> \o <<0, 0, 0, 1, 1>>
    /\ call.ret = <<Ok(<<"Have", 7>>), Ok(<<"Unchoke">>)>>
    /\ call.rest = <<>>

\* the info_hash carried by a 68-byte handshake (bytes 29..48)
InfoHashOf(h) == SubSeq(h, 29, 48)

\* the remote side answered with a whole handshake whose info_hash is not
\* the one handshake was called with
Mismatching ==
    /\ call.fn = "handshake"
    /\ \E k \in 1 .. Len(call.arg[3]) :
          LET r == call.arg[3][k]
          IN r.kind = "data" /\ Len(r.bytes) = 68
             /\ InfoHashOf(r.bytes) # call.arg[1]

\* C14: a handshake answered with a different info_hash returns an error,
\* so that handle_peer leaves at the ? of torrent.rs:306 and never enters
\* its message loop
C14_MismatchIsError ==
    (Mismatching /\ call.ret # <<>>) => call.ret[1].kind = "err"

\* C15: the handshake written is 68 bytes: 19, "BitTorrent protocol", eight
\* reserved bytes of value 0x00, the info_hash, the peer_id
C15_HandshakeBytes ==
    (call.fn = "handshake" /\ call.out # <<>>) =>
        /\ Len(call.out) = 68
        /\ call.out = HandshakeZeroReserved(call.arg[1], call.arg[2])

\* the digits of integer i, between its 'i' and its 'e'
TextOf(i) == SubSeq(i, 2, Len(i) - 1)

\* the value of a well-formed integer i and of the string 1:a
IntegerValue(i) == <<"Integer", TextOf(i), i>>

StrAValue == <<"String", <<97>>, StrA>>

\* what the grammar says of integer i: empty, negative zero, a leading zero
\* followed by more digits, or the integer of its digits
Grammar(i) ==
    LET t == TextOf(i)
    IN IF t = <<>> THEN Err(<<"EmptyInteger">>)
       ELSE IF Len(t) >= 2 /\ t[1] = ChMinus /\ t[2] = Ch0
       THEN Err(<<"NegativeZero">>)
       ELSE IF Len(t) >= 2 /\ t[1] = Ch0 THEN Err(<<"LeadingZero">>)
       ELSE Ok(IntegerValue(i))

\* the document with a well-formed integer i at place p, decoded
Decoded(p, i) ==
    LET v == IntegerValue(i)
        d == Document(p, i)
    IN CASE p = 1 -> v
         [] p = 2 -> <<"List", <<v>>, d>>
         [] p = 3 -> <<"List", <<StrAValue, v>>, d>>
         [] p = 4 -> <<"List", <<v, StrAValue>>, d>>
         [] p = 5 -> <<"Map", {<<StrAValue, v>>}, d>>
         [] p = 6 -> <<"List", <<(<<"List", <<v>>, SubSeq(d, 2, Len(d) - 1)>>)>>, d>>

C19_CompactPeers ==
    (call.fn = "from_bencode_type" /\ call.ret # <<>> /\ call.arg[1] = "String") =>
        LET bytes == call.arg[2]
            r == call.ret[1]
        IN /\ r.kind # "panic"
           /\ Len(bytes) % 6 # 0 => r.kind = "err"
           /\ Len(bytes) % 6 = 0 =>
                 /\ r.kind = "ok" /\ r.val[1] = "Binary"
                 /\ Len(r.val[2]) = Len(bytes) \div 6
                 /\ \A k \in 1 .. Len(r.val[2]) :
                       /\ r.val[2][k].ip = SubSeq(bytes, 6 * k - 5, 6 * k - 2)
                       /\ r.val[2][k].port = 256 * bytes[6 * k - 1] + bytes[6 * k]
           /\ bytes = <<10, 0, 0, 1, 26, 225>> =>
                 r = Ok(<<"Binary", <<[ip |-> <<10, 0, 0, 1>>, port |-> 6881]>>>>)

\* C18: from_bencode decodes the dictionary that begins right after the
\* header terminator, whatever bytes the body holds: its result is the
\* response described by the body
C18_DecodesTheBody ==
    (call.fn = "from_bencode" /\ call.ret # <<>>) =>
        /\ Begin(call.arg) = Len(call.header)
        /\ call.ret[1] = FieldsOf(try_into_dict(call.body))

\* C16: during an announce a read timeout is retried, and a read error
\* other than a timeout or a connection reset is returned to the caller as
\* an error and not retried
C16_OtherReadErrorsSurface ==
    call.fn = "announce" =>
        /\ call.last = <<"read", "timedout">>
              => (call.ret = <<>> /\ call.pc = "write")
        /\ call.last = <<"read", "other">>
              => (call.ret # <<>> /\ call.ret[1].kind = "err")

\* C17: an announce that ends without a peer list, by returning an error
\* or on a response that cannot be decoded, stops the scheduler loop: the
\* loop does not go round to announce again
C17_TrackerErrorStops ==
    [][(main.pc = "announce" /\ main'.pc \notin {"announce", "iter"})
          => main'.pc \in {"finished", "panicked", "exited"}]_vars

\* C21: the integer zero i0e decodes to Integer("0") wherever it occurs, at
\* top level and as a list element or dictionary value followed by further
\* bytes
C21_ZeroDecodes ==
    (call.fn = "bedecode" /\ call.ret # <<>> /\ call.place \in Places
        /\ call.int = <<ChI, Ch0, ChE>>)
        => call.ret[1] = Ok(Decoded(call.place, call.int))

\* C22: for every input that ends early or lacks a terminator the decoder
\* returns an error value and never indexes past the end of the input: an
\* unclosed integer gives UnclosedInteger, an unclosed list or dictionary
\* UnclosedList or UnclosedMap, a string length without colon MissingColon,
\* and a string longer than the bytes that remain an error as well
C22_TruncatedIsError ==
    (call.fn = "bedecode" /\ call.ret # <<>> /\ call.place = 0) =>
        LET kind == (CHOOSE t \in Unterminated : t[1] = call.arg)[2]
        IN /\ call.ret[1].kind = "err"
           /\ kind # "NotEnoughBytes" => call.ret[1] = Err(<<kind>>)

\* the concatenation of the sequences of seq
RECURSIVE Concat(_)
Concat(seq) == IF seq = <<>> THEN <<>> ELSE Head(seq) \o Concat(Tail(seq))

\* the raw slices of the pairs of a map, in every order they may have had
\* in the input
PairOrders(map) ==
    {f \in [1 .. Cardinality(map) -> map] :
        \A i, j \in 1 .. Cardinality(map) : f[i] = f[j] => i = j}

\* value v carries as raw the bytes from its marker to its terminator, and
\* so does every value inside it: the raw of a container is its marker, the
\* raw slices of its children one after the other, and its terminator
RECURSIVE RawIsWhole(_)
RawIsWhole(v) ==
    CASE v[1] = "String" ->
             \E k \in 1 .. Len(v[3]) :
                /\ v[3][k] = ChColon
                /\ \A j \in 1 .. (k - 1) : IsDigit(v[3][j])
                /\ ParseNat(Take(v[3], k - 1)) = Len(v[2])
                /\ Drop(v[3], k) = v[2]
      [] v[1] = "Integer" -> v[3] = <<ChI>> \o v[2] \o <<ChE>>
      [] v[1] = "List" ->
             /\ \A k \in 1 .. Len(v[2]) : RawIsWhole(v[2][k])
             /\ v[3] = <<ChL>> \o Concat([k \in 1 .. Len(v[2]) |-> v[2][k][3]])
                              \o <<ChE>>
      [] v[1] = "Map" ->
             /\ \A p \in v[2] : RawIsWhole(p[1]) /\ RawIsWhole(p[2])
             /\ \E f \in PairOrders(v[2]) :
                   v[3] = <<ChD>> \o Concat([k \in 1 .. Cardinality(v[2]) |->
                                               f[k][1][3] \o f[k][2][3]])
                                  \o <<ChE>>

\* C23: every value the decoder produces, at any depth, carries as raw
\* exactly the bytes from its marker to its terminator, so that the raw
\* slices of the children of a container, put one after the other between
\* marker and terminator, give the raw slice of the container
C23_RawSlices ==
    (call.fn = "bedecode" /\ call.ret # <<>> /\ call.place = 7
        /\ call.ret[1].kind = "ok")
        => (call.ret[1].val[3] = call.arg /\ RawIsWhole(call.ret[1].val))

\* the dictionaries of value v, v included, at any depth
RECURSIVE MapsIn(_)
MapsIn(v) ==
    CASE v[1] = "List" -> UNION {MapsIn(v[2][k]) : k \in 1 .. Len(v[2])}
      [] v[1] = "Map" -> {v[2]} \cup UNION {MapsIn(p[2]) : p \in v[2]}
      [] OTHER -> {}

\* C24: decoding a dictionary that repeats a key, or that has a key no
\* value follows, gives an error or a value that holds every pair of the
\* input; no pair is dropped without an error
C24_NoSilentDedup ==
    (call.fn = "bedecode" /\ call.ret # <<>> /\ call.place = 7
        /\ \E t \in Dictionaries : t[1] = call.arg) =>
        LET pairs == (CHOOSE t \in Dictionaries : t[1] = call.arg)[2]
        IN \/ call.ret[1].kind = "err"
           \/ /\ call.ret[1].kind = "ok"
              /\ \E map \in MapsIn(call.ret[1].val) :
                    /\ Cardinality(map) = Len(pairs)
                    /\ \A k \in 1 .. Len(pairs) :
                          \E p \in map : /\ p[1][2] = pairs[k][1]
                                         /\ pairs[k][2] # <<>> => p[2][3] = pairs[k][2]

\* C25: over the whole run the assembler writes at most piece_size(i) +
\* BLOCK_SIZE bytes of piece i to the file: a piece is written when nothing
\* of it is in the file yet, with at most one block beyond its size, and a
\* block that arrives after the piece was persisted does not have it
\* written again
C25_PieceWrittenOnce ==
    [][(asm.pc = "write" /\ asm'.pc # "write")
          => /\ file[asm.index] = <<>>
             /\ Len(pieces[asm.index]) <= PieceSize(asm.index) + Block]_vars

\* the pieces session s may be given: not complete, set in the bitfield the
\* session keeps for its peer, and not in flight, that is, neither assigned
\* to a session, nor waiting for its release, nor received and on its way
\* into the file
Selectable(s) ==
    {i \in Pieces :
        /\ i \notin Completed
        /\ BitIsSet(sess[s].bitfield, i)
        /\ Holders(i) = {}
        /\ \A r \in rel : r[1] # i
        /\ ~BitAll(received_blocks[i])
        /\ ~InPipeline(i)}

\* C26: whenever get_next_piece returns Some(i) to a session, i is the
\* least index that is not complete, set in the peer's bitfield and not in
\* flight, and i is taken out of available_pieces in the same locked step;
\* it returns None exactly when there is no such index
C26_SmallestSelectable ==
    [][\A s \in Slots :
          (sess[s].pc = "gnp" /\ sess'[s] # sess[s]) =>
              LET taken == available_pieces \ available_pieces'
              IN IF Selectable(s) = {} THEN taken = {}
                 ELSE /\ taken = {CHOOSE i \in Selectable(s) :
                                     \A j \in Selectable(s) : i <= j}
                      /\ sess'[s].piece \in taken]_vars

\* C27: while peer_choking is true a session sends no Request: every
\* Request written to the peer is written by a session whose peer is not
\* choking it, whatever message made the session send it
C27_NoRequestWhileChoked ==
    [][\A s \in Slots :
          (sess[s].pc = "send_request" /\ sess'[s].pc = "read"
              /\ sess'[s].rq = sess[s].out)
              => ~sess[s].is_choking]_vars

\* C28: within one session and for one piece the begin values of the
\* Requests sent are strictly increasing: a Request written while the
\* session's previous Request for the same piece is still unanswered has a
\* larger begin than that one
C28_BeginIncreases ==
    [][\A s \in Slots :
          (sess[s].pc = "send_request" /\ sess'[s].pc = "read"
              /\ sess'[s].rq = sess[s].out
              /\ sess[s].rq.t = "Request"
              /\ sess[s].rq.index = sess[s].out.index)
              => sess[s].rq.begin < sess[s].out.begin]_vars

\* C29: every Request a session sends for piece i has length
\* min(BLOCK_SIZE, piece_size(i) - begin), the first Request of a newly
\* acquired piece and a short last piece included
C29_RequestLength ==
    \A s \in Slots :
        sess[s].rq.t = "Request" =>
            /\ sess[s].rq.begin <= PieceSize(sess[s].rq.index)
            /\ sess[s].rq.len = Min(Block, PieceSize(sess[s].rq.index) - sess[s].rq.begin)

\* C30: on a Piece message the session forwards (index, begin, block) to the
\* assembler channel and advances its offset by the block length; exactly
\* when the offset equals piece_size(index) it goes on to take a new piece,
\* requested from offset 0, or to close if there is none; otherwise it
\* requests the next block of the same piece
C30_PieceArm ==
    [][\A s \in Slots :
          /\ (sess[s].pc = "chan_send" /\ chan_open /\ sess'[s] # sess[s]) =>
                LET st == sess[s]
                    offset == st.offset + st.out.len
                IN /\ chan' = Append(chan, st.out)
                   /\ IF offset = PieceSize(st.out.index)
                      THEN sess'[s].pc = "gnp" /\ sess'[s].offset = 0
                      ELSE /\ sess'[s].pc = "send_request"
                           /\ sess'[s].offset = offset
                           /\ sess'[s].piece = st.piece
                           /\ sess'[s].out.t = "Request"
                           /\ sess'[s].out.index = st.piece
                           /\ sess'[s].out.begin = offset
          /\ (sess[s].pc = "gnp" /\ sess[s].cont = "piece" /\ sess'[s] # sess[s]) =>
                \/ sess'[s].pc = "remove"
                \/ /\ sess'[s].pc = "send_request"
                   /\ sess'[s].piece \in available_pieces
                   /\ sess'[s].out.index = sess'[s].piece
                   /\ sess'[s].out.begin = 0
                   /\ sess'[s].offset = 0]_vars

\* C31: on KeepAlive the session is closed if and only if no piece set in
\* the peer's bitfield is still needed (not complete and not in flight); a
\* peer that still has a needed piece keeps its session
C31_KeepAliveCloses ==
    [][\A s \in Slots :
          (sess[s].pc = "itnp" /\ sess[s].cont = "keepalive" /\ sess'[s] # sess[s])
              => (sess'[s].pc = "remove" <=> Selectable(s) = {})]_vars

\* C32: on Bitfield or Have the session goes on to send Interested only if
\* it is not interested yet and some piece is not complete, set in the
\* peer's bitfield and not in flight
C32_InterestedOnlyIfNeeded ==
    [][\A s \in Slots :
          (sess[s].pc = "itnp" /\ sess[s].cont = "interest"
              /\ sess'[s].pc = "send_interested")
              => (~sess[s].am_interested /\ Selectable(s) # {})]_vars

\* C33: the peer state of a session follows the message read: Choke sets
\* and Unchoke clears peer_choking, Interested sets and NotInterested clears
\* peer_interested, Bitfield replaces the peer's bit set, Have(i) sets bit i
\* and leaves the other bits as they were
C33_PeerStateFollows ==
    (call.fn = "handle" /\ call.ret # <<>>) =>
        LET m == call.arg
            old == call.st
            new == call.ret[1].st
        IN /\ m.t = "Choke" => new.is_choking
           /\ m.t = "Unchoke" => ~new.is_choking
           /\ m.t = "Interested" => new.is_interested
           /\ m.t = "NotInterested" => ~new.is_interested
           /\ m.t = "Bitfield" => new.bitfield.bits = m.bits
           /\ (m.t = "Have" /\ m.index \in Pieces)
                 => new.bitfield.bits = old.bitfield.bits \cup {m.index}

\* C34: the peer bitfield of every session has as many bits as the torrent
\* has pieces, all clear at first, however many pieces were already claimed
\* when the session was created, and it keeps that size after Bitfield and
\* Have messages
C34_BitfieldSize ==
    \A s \in Slots :
        sess[s].pc \notin {"unborn", "start", "connect", "remove"} =>
            /\ sess[s].bitfield.len = NumPieces
            /\ sess[s].script = 0 => sess[s].bitfield.bits = {}

\* the bytes the peer sends in the reads given to handshake
Sent == Concat([k \in 1 .. Len(call.arg[3]) |-> call.arg[3][k].bytes])

\* C35: handshake returns the first 68 bytes the peer sends, however they
\* are split across reads, and returns an error when the peer closes the
\* connection before 68 bytes have arrived: once every read has been taken
\* the call has returned
C35_HandshakeReadInFull ==
    (call.fn = "handshake" /\ call.out # <<>> /\ call.rest = <<>>) =>
        /\ call.ret # <<>>
        /\ Len(Sent) >= 68 => call.ret[1] = Ok(Take(Sent, 68))
        /\ Len(Sent) < 68 => call.ret[1].kind = "err"

\* a block the assembler cannot place: its piece index is outside the
\* torrent or its block index outside the piece
Misplaced(m) ==
    \/ m.index \notin Pieces
    \/ m.begin \div Block >= BlockNum(PieceSize(m.index))

\* C36: the assembler keeps consuming the channel after a block whose piece
\* index or block index is out of range: the block is dropped, no piece is
\* marked, and the channel stays open for the blocks of other sessions
C36_MisplacedBlockRejected ==
    [][(asm.pc = "recv" /\ chan # <<>> /\ Misplaced(Head(chan)) /\ asm' # asm)
          => /\ asm'.pc = "recv"
             /\ chan_open'
             /\ received_blocks' = received_blocks
             /\ file_bitfield' = file_bitfield]_vars

\* C37: the piece size a session uses does not depend on when it starts: it
\* is last_piece_length for the last index of the torrent and piece_length
\* for every other index, and no remaining size computed from it wraps
C37_PieceSizeUsed ==
    /\ overflow_checks = "unknown"
    /\ \A s \in Slots :
          sess[s].pc \notin {"unborn", "start", "remove"} =>
              \A i \in Pieces : Remaining(sess[s], i, 0) = PieceSize(i)

\* C38: a Request sent in reaction to a Piece names the session's assigned
\* piece and its own offset; a Piece received while no piece is assigned,
\* or for another index than the assigned one, neither aborts the session
\* task nor advances the session's offset or changes its assignment
C38_StrayPieceIgnored ==
    [][\A s \in Slots :
          (sess[s].pc = "chan_send" /\ chan_open /\ sess'[s] # sess[s]) =>
              LET st == sess[s]
                  stray == st.piece = NoPiece \/ st.out.index # st.piece
              IN /\ stray => /\ sess'[s].pc # "unborn"
                             /\ sess'[s].offset = st.offset
                             /\ sess'[s].piece = st.piece
                 /\ sess'[s].pc = "send_request"
                       => /\ sess'[s].out.index = sess'[s].piece
                          /\ sess'[s].out.begin = sess'[s].offset]_vars

\* C39: connected_peers holds only addresses of live sessions: however a
\* session task ends, its address is removed, so that a later announce can
\* connect to the address again
C39_ConnectedAreLive ==
    \A a \in connected_peers : \E s \in Slots : sess[s].pc # "unborn" /\ sess[s].addr = a

\* the locks of which task t has a guard
Holds(t) == {l \in DOMAIN locks : locks[l].w = t \/ t \in locks[l].r}

\* the tasks that are at a .read().await or .write().await, with the lock
\* they ask for: the scheduler loop (torrent.rs:225, 239, 245, 271), the
\* assembler (213), the sessions (295, 417, 437, 268) and the release tasks
\* (79, 80)
Waits ==
    (IF main.pc \in {"check", "iter"} THEN {<<MainTask, "fb">>}
     ELSE IF main.pc \in {"contains", "insert"} THEN {<<MainTask, "cp">>}
     ELSE {})
    \cup (IF asm.pc = "set_bit" THEN {<<AsmTask, "fb">>} ELSE {})
    \cup {<<SessTask(s), "ap">> : s \in {x \in Slots : sess[x].pc \in {"start", "gnp", "itnp"}}}
    \cup {<<SessTask(s), "cp">> : s \in {x \in Slots : sess[x].pc = "remove"}}
    \cup {<<RelTask(r), IF r[2] = "check" THEN "fb" ELSE "ap">> : r \in rel}

\* C40: no task asks for one of the shared locks while it has a guard of
\* another (or of the same) lock, so no set of tasks can be blocked on each
\* other's locks
C40_NoHoldAndWait == \A w \in Waits : Holds(w[1]) = {}

\* the scheduler loop, the assembler, a session and a release task are all
\* at a lock request at once
C40_Witness ==
    /\ main.pc \in {"contains", "insert"}
    /\ asm.pc = "set_bit"
    /\ rel # {}
    /\ \E s \in Slots : sess[s].pc \in {"gnp", "itnp", "start"}

====
